---- MODULE Spec2Model ----
(***************************************************************************)
(* Model of the orchestrator's event log (store.py, models.py), the        *)
(* attention queue derived from it, the resolution tracker and the queue   *)
(* server's REST resolve and poll-diff broadcaster (server.py).            *)
(*                                                                         *)
(* The store is a directory tree: one directory per project holding an     *)
(* append-only events.jsonl file.  A line of that file is modelled as the  *)
(* JSON object ContextEntry.to_dict wrote; reading parses every line back  *)
(* into a ContextEntry (ContextEntry.parse, __post_init__).                *)
(*                                                                         *)
(* A push-socket connection is modelled by the frames handed to its       *)
(* writer and by the depth of its pending recv; the WebSocket frame codec  *)
(* (ws_write_frame, ws_read_frame) is modelled on header bytes.            *)
(*                                                                         *)
(* ContextStore.get_queue, resolve_entry and get_resolved_ids are called   *)
(* by server.py and test_queue.py but are not part of store.py as given;   *)
(* they are modelled from the specification (sections 3, 4.2 and 4.3).     *)
(***************************************************************************)
EXTENDS Integers, Sequences, FiniteSets, TLC

(* ------------------------------ bounds -------------------------------- *)

\* Total number of ContextEntry objects ever constructed and appended.
MaxEntries == 3

\* Number of frames written to one connection.
MaxInbox == 4

\* Number of body bytes that arrive in the read of the header block.
MaxBody == 3

(* ----------------------------- constants ------------------------------ *)

\* WebSocket opcodes.
OP_TEXT == 1

OP_CLOSE == 8

OP_PING == 9

OP_PONG == 10

\* The limit of the event lookup in QueueServer._resolve_entry, which reads
\* the last `limit` events of each project.  The source value is 1000; it
\* is scaled down so that a log longer than the limit is reachable within
\* MaxEntries.
ResolveLimit == 2

Projects == {"p1", "p2"}

\* Enumeration order of projects_dir.iterdir(): fixed for a given tree.
ProjectOrder == <<"p1", "p2">>

Conns == {"c1", "c2"}

\* The connections that come and go while the server polls (SpecServer).
ServerConns == {"c1"}

\* EventKind values.
EventKindValues == {"status", "handoff", "note", "error", "approval_needed"}

\* id: Optional[str] = None; ids drawn by uuid4 are 1, 2, ...
NoId == 0

\* since_ts: Optional[str] = None; timestamps are 0, 1, ...
NoTs == -1

\* The number of recv calls that can be nested in one another before the
\* interpreter raises RecursionError: recv calls itself once per ping.
\* The interpreter's limit is 1000 frames (986 nested recv calls were
\* measured); it is scaled down so that the depth is reachable within
\* MaxInbox.
RecursionLimit == 2

\* tick_mark of a connection that was not registered when the tick began.
NotInTick == -1

\* The (kind, human_attention_needed) pairs callers construct entries with;
\* "deploy" is a kind outside EventKind, kept as a raw string.
AppendInputs ==
    { <<"status", FALSE>>, <<"handoff", FALSE>>, <<"note", FALSE>>,
      <<"error", FALSE>>, <<"approval_needed", FALSE>>, <<"note", TRUE>> }

\* The pairs appended while REST requests are served (SpecRest).
RestAppendInputs ==
    { <<"status", FALSE>>, <<"approval_needed", FALSE>>, <<"note", TRUE>> }

\* The pairs appended while the server polls and broadcasts (SpecServer).
ServerAppendInputs == { <<"status", FALSE>>, <<"error", FALSE>> }

\* The project and the pair appended while two connections are served
\* (SpecPush).
PushProjects == {"p1"}

PushAppendInputs == { <<"error", FALSE>> }

\* The request body of the resolve requests of SpecServer.
ServerPayloads == { [action |-> "approve", text |-> "LGTM"] }

\* (action, text) of a direct store.resolve_entry call.
ResolveInputs == { <<"approve", "LGTM">> }

\* JSON bodies of POST /queue/{id}/resolve: an object with both keys, and
\* the empty object (body absent).
Payloads == { [action |-> "approve", text |-> "LGTM"], <<>> }

\* The pairs appended while the log is read back (SpecRead).
ReadAppendInputs == { <<"status", FALSE>>, <<"error", FALSE>> }

\* The since_ts and limit arguments of the reads: no since_ts and every
\* timestamp an entry can carry; limits from 0 to past the longest log.
SinceInputs == {NoTs} \cup (0..(MaxEntries - 1))

LimitInputs == 0..(MaxEntries + 1)

\* No Content-Length header in the request.
NoLength == -1

\* The requests _read_body is exercised with (SpecBody): the Content-Length
\* header absent, 0, and up to one more than the bytes read with the
\* header block; those bytes; and what the peer sends after them, as the
\* chunks the transport delivers before the end of the stream.
ContentLengths == {NoLength} \cup (0..(MaxBody + 1))

BodyBytes == {123, 125}

BodyStarts == UNION { [1..n -> BodyBytes] : n \in 0..MaxBody }

BodyChunks == UNION { [1..n -> BodyBytes] : n \in 1..2 }

BodyArrivals == UNION { [1..n -> BodyChunks] : n \in 0..2 }

\* The session names and the command of the engine's calls (SpecEngine).
SessionNames == {"w1", "w2"}

Commands == {"ls"}

\* sessions.json has no record under the name.
NoSession == <<>>

\* Number of calls made to the Session Executor.
MaxCalls == 3

\* The status of a request whose connection was closed with no response
\* written.
NoResponse == 0

\* b"": the request has no body.
EmptyBody == [json |-> "", value |-> <<>>]

\* The request bodies of POST /queue/{id}/resolve as _read_body returns
\* them (SpecHttp): no body; bytes that are not a JSON text; JSON objects
\* with both keys, one key, no key; JSON texts of the other types.
HttpBodies ==
    { EmptyBody,
      [json |-> "malformed", value |-> <<>>],
      [json |-> "object", value |-> [action |-> "approve", text |-> "LGTM"]],
      [json |-> "object", value |-> [action |-> "reject"]],
      [json |-> "object", value |-> <<>>],
      [json |-> "array", value |-> <<>>],
      [json |-> "array", value |-> <<1>>],
      [json |-> "string", value |-> <<"approve">>],
      [json |-> "number", value |-> <<5>>],
      [json |-> "null", value |-> <<>>] }

\* The frames the codec is exercised with (SpecFrame): every 4-bit opcode;
\* payload lengths around the bounds of the three length forms; payload
\* bytes and masks with all bits clear, all set, and mixed.
FrameOpcodes == 0..15

FrameLengths == {0, 1, 3, 4, 5, 125, 126, 127, 65535, 65536, 65537}

FramePatterns == { <<0, 0, 0, 0>>, <<72, 105, 33, 10>>, <<255, 0, 129, 126>> }

FrameMasks == { <<0, 0, 0, 0>>, <<55, 250, 33, 61>>, <<255, 255, 255, 255>> }

\* The mask and the payloads of the frames clients send (SpecWs).
ClientMask == <<55, 250, 33, 61>>

ClientPayloads ==
    { [len |-> 0, pat |-> <<0, 0, 0, 0>>],
      [len |-> 2, pat |-> <<72, 105, 0, 0>>] }

\* uuid4 outcomes drawn while parsing (only used for a line without an id).
UuidSeeds == {1, 2}

\* The seed of a read whose result is compared with a requested id: a
\* freshly drawn uuid4 equals no requested id, whichever it is.
AnyUuid == 1

(* ------------------------------- state -------------------------------- *)

VARIABLES
    dirs,        \* project directories that exist under projects/
    events,      \* events[p]: the lines of p's events.jsonl, as JSON objects
    resolved,    \* resolved[p]: the persisted resolved-id list of p
    uuid,        \* number of uuid4 values drawn by ContextEntry construction
    now,         \* the clock read by utcnow_iso
    resp,        \* outcome of the last step when it was a request, else NoResp
    known,       \* QueueServer._known_queue_ids
    pollpc,      \* _poll_queue: "sleep", "run" (between broadcasts), "bcast"
    current,     \* the queue derived by the tick in progress
    idx,         \* position of the add loop in current
    rem,         \* old ids the remove loop has still to visit
    phase,       \* "adds" or "removes": the loop the tick is in
    sent,        \* the messages passed to _broadcast by the latest tick
    outcome,     \* how the latest tick ended: "none", "completed", "aborted"
    ws_clients,  \* QueueServer.ws_clients
    closed,      \* the connections whose closed flag is set
    handlers,    \* the connections whose _handle_ws_upgrade has registered
                 \* them and has not ended
    bcast,       \* _broadcast in progress: its message, the set size at the
                 \* start of the iteration, the connections its iterator
                 \* has passed
    yielded,     \* the poll task is suspended in an await of a send
    serving,     \* start() is inside serve_forever
    inbox,       \* inbox[c]: the (opcode, payload) pairs passed to
                 \* ws_write_frame on c's writer, in order
    depth,       \* depth[c]: the recv calls nested in c's pending recv
    tick_mark,   \* tick_mark[c]: the number of frames written to c when the
                 \* tick in progress began, for the connections registered
                 \* ever since; NotInTick for the others
    fin,         \* frame codec: the (opcode, payload, mask) to encode
    wire,        \* frame codec: the bytes on the stream
    fout,        \* frame codec: the outcome of ws_read_frame
    sessions,    \* sessions[p]: p's sessions.json, session name to record
    calls        \* the calls made to the Session Executor, in order

storeVars == <<dirs, events, resolved>>
pollVars == <<known, pollpc, current, idx, rem, phase, sent, outcome, bcast,
              yielded, serving>>
connVars == <<ws_clients, closed, handlers, inbox, depth>>
wsVars == <<connVars, tick_mark>>
serverVars == <<pollVars, wsVars>>
frameVars == <<fin, wire, fout>>
engineVars == <<sessions, calls>>
vars == <<dirs, events, resolved, uuid, now, resp, serverVars, frameVars,
          engineVars>>

Range(s) == { s[i] : i \in 1..Len(s) }

(* ------------------------- models.py: entries ------------------------- *)

\* EventKind(kind) for a known value, the raw string otherwise.
Kind(tag, value) == [tag |-> tag, value |-> value]

\* Mutant of PostInit: a uuid4 is drawn whether or not an id was given.
PostInit_redraw(e, u) ==
    [e EXCEPT
        !.kind = IF e.kind.tag = "str" /\ e.kind.value \in EventKindValues
                 THEN Kind("EventKind", e.kind.value)
                 ELSE e.kind,
        !.id = u,
        !.ts = IF e.ts = NoTs THEN now ELSE e.ts]

\* ContextEntry.__post_init__: coerce a string kind to EventKind when it is
\* one of its values, draw a uuid4 when id is None, stamp an empty ts.  u is
\* the uuid4 drawn.
PostInit(e, u) ==
    [e EXCEPT
        !.kind = IF e.kind.tag = "str" /\ e.kind.value \in EventKindValues
                 THEN Kind("EventKind", e.kind.value)
                 ELSE e.kind,
        !.id = IF e.id = NoId THEN u ELSE e.id,
        !.ts = IF e.ts = NoTs THEN now ELSE e.ts]

\* ContextEntry.kind_value
kind_value(e) == e.kind.value

\* ContextEntry.to_dict: asdict, then kind as its string value, then the id.
to_dict(e) ==
    [project_id |-> e.project_id,
     session_name |-> e.session_name,
     actor |-> e.actor,
     kind |-> kind_value(e),
     text |-> e.text,
     ts |-> e.ts,
     refs |-> e.refs,
     human_attention_needed |-> e.human_attention_needed,
     id |-> e.id]

\* Mutant of parse: the attention flag is not read back.
parse_no_attention(data, u) ==
    PostInit(
        [project_id |-> data.project_id, session_name |-> data.session_name,
         actor |-> data.actor, kind |-> Kind("str", data.kind),
         text |-> data.text, ts |-> data.ts, refs |-> data.refs,
         human_attention_needed |-> FALSE, id |-> data.id],
        u)

\* Mutant of parse: the id is not read back, so every parse draws one.
parse_drop_id(data, u) ==
    PostInit(
        [project_id |-> data.project_id, session_name |-> data.session_name,
         actor |-> data.actor, kind |-> Kind("str", data.kind),
         text |-> data.text, ts |-> data.ts, refs |-> data.refs,
         human_attention_needed |-> data.human_attention_needed,
         id |-> NoId],
        u)

\* ContextEntry.parse: a missing "id" key reads as None, a missing
\* "human_attention_needed" as False, a missing "ts" as the current time;
\* kind arrives as a string.
parse(data, u) ==
    PostInit(
        [project_id |-> data.project_id,
         session_name |-> data.session_name,
         actor |-> data.actor,
         kind |-> Kind("str", data.kind),
         text |-> data.text,
         ts |-> IF "ts" \in DOMAIN data THEN data.ts ELSE now,
         refs |-> IF "refs" \in DOMAIN data THEN data.refs ELSE <<>>,
         human_attention_needed |->
             IF "human_attention_needed" \in DOMAIN data
             THEN data.human_attention_needed ELSE FALSE,
         id |-> IF "id" \in DOMAIN data THEN data.id ELSE NoId],
        u)

\* ContextEntry(...) as callers construct it: id left None, ts defaulted.
NewEntry(p, actor, kind, text, attention, u, t) ==
    PostInit(
        [project_id |-> p,
         session_name |-> "s1",
         actor |-> actor,
         kind |-> kind,
         text |-> text,
         ts |-> t,
         refs |-> <<>>,
         human_attention_needed |-> attention,
         id |-> NoId],
        u)

(* --------------------------- store.py: log ---------------------------- *)

\* The uuid4 a parse of line i draws under seed u, when it has to draw one.
Fresh(u, i) == 100 * u + i

\* Mutant of list_projects: only the first directory is listed.
list_projects_first_only ==
    LET all == SelectSeq(ProjectOrder, LAMBDA p : p \in dirs)
    IN  IF all = <<>> THEN <<>> ELSE <<Head(all)>>

\* ContextStore.list_projects: the directories under projects/, in
\* enumeration order.
list_projects == SelectSeq(ProjectOrder, LAMBDA p : p \in dirs)

\* Python's parsed[-limit:] for limit >= 0 (-0 is 0: the whole list).
LastN(s, limit) ==
    IF limit = 0 \/ limit >= Len(s) THEN s
    ELSE SubSeq(s, Len(s) - limit + 1, Len(s))

\* Mutant of read_events: the first line of the file is skipped.
read_events_skip_first(p, u) ==
    IF p \notin dirs \/ events[p] = <<>> THEN <<>>
    ELSE [i \in 1..(Len(events[p]) - 1) |->
              parse(events[p][i + 1], Fresh(u, i + 1))]

\* ContextStore.get_events: [] for a project without an events file, else
\* every line parsed (read_events), filtered to ts > since_ts when given,
\* last `limit`.
read_events(p, u) ==
    IF p \notin dirs \/ events[p] = <<>> THEN <<>>
    ELSE [i \in 1..Len(events[p]) |-> parse(events[p][i], Fresh(u, i))]

get_events(p, since_ts, limit, u) ==
    LET parsed == read_events(p, u)
        kept == IF since_ts # NoTs
                THEN SelectSeq(parsed, LAMBDA e : e.ts > since_ts)
                ELSE parsed
    IN  LastN(kept, limit)

\* The effect of ContextStore.append_entry on the tree: mkdir, stamp ts,
\* append one line.
append_entry_dirs(e) == dirs \cup {e.project_id}

\* Mutant of append_entry_events: the file is opened "w", not "a".
append_entry_events_truncate(e) ==
    [events EXCEPT ![e.project_id] = <<to_dict([e EXCEPT !.ts = now])>>]

\* Mutant of append_entry_events: the line goes to every project's file.
append_entry_events_everywhere(e) ==
    [q \in Projects |-> Append(events[q], to_dict([e EXCEPT !.ts = now]))]

\* Mutant of append_entry_events: the line is written twice.
append_entry_events_twice(e) ==
    [events EXCEPT ![e.project_id] =
        Append(Append(@, to_dict([e EXCEPT !.ts = now])),
               to_dict([e EXCEPT !.ts = now]))]

append_entry_events(e) ==
    [events EXCEPT ![e.project_id] =
        Append(@, to_dict([e EXCEPT !.ts = now]))]


(* ------------- store: attention queue and resolution tracker ---------- *)

\* ContextStore.get_resolved_ids: the persisted resolved ids of p, as a set.
get_resolved_ids(p) == { resolved[p][i] : i \in 1..Len(resolved[p]) }

\* The attention predicate of a queue item.
needs_attention(e) ==
    kind_value(e) \in {"error", "approval_needed"} \/ e.human_attention_needed

\* The queue of one project: its full history in append order, attention
\* entries only, minus the resolved ids.
project_queue(p, u) ==
    SelectSeq(read_events(p, u),
              LAMBDA e : needs_attention(e) /\ e.id \notin get_resolved_ids(p))

RECURSIVE concat_queues(_, _)
concat_queues(ps, u) ==
    IF ps = <<>> THEN <<>>
    ELSE project_queue(Head(ps), u) \o concat_queues(Tail(ps), u)

\* ContextStore.get_queue(project_id=None): one project's queue, or the
\* concatenation over list_projects().
get_queue(p, u) ==
    IF p # "" THEN project_queue(p, u) ELSE concat_queues(list_projects, u)

\* ContextStore.resolve_entry: does p's log hold entry_id (linear scan)?
entry_exists(p, entry_id, u) ==
    LET evs == read_events(p, u)
    IN  \E i \in 1..Len(evs) : evs[i].id = entry_id

\* The resolved-id list after an idempotent insert of entry_id.
resolved_insert(p, entry_id) ==
    IF entry_id \in get_resolved_ids(p) THEN resolved
    ELSE [resolved EXCEPT ![p] = Append(@, entry_id)]

\* The resolution record: actor "human", kind note, text embedding the
\* action and the rationale.
resolution_record(p, action, text, u) ==
    NewEntry(p, "human", Kind("EventKind", "note"),
             <<"Resolved", action, text>>, FALSE, u, now)

(* ------------------- server.py: WebSocket frame codec ----------------- *)

\* a ^ b on bytes.
RECURSIVE BitXor(_, _)
BitXor(a, b) ==
    IF a = 0 THEN b
    ELSE IF b = 0 THEN a
    ELSE (((a % 2) + (b % 2)) % 2) + 2 * BitXor(a \div 2, b \div 2)

\* A byte string of `len` bytes whose byte i (counted from 0) is
\* pat[i % 4 + 1]; the pattern positions no byte falls on are kept 0, so
\* that equal byte strings are equal values.
Bytes(len, pat) ==
    [len |-> len, pat |-> [k \in 1..4 |-> IF k <= len THEN pat[k] ELSE 0]]

\* b""
EmptyBytes == Bytes(0, <<0, 0, 0, 0>>)

\* bytes(b ^ mask[i % 4] for i, b in enumerate(payload))
xor_mask(payload, mask) ==
    Bytes(payload.len, [k \in 1..4 |-> BitXor(payload.pat[k], mask[k])])

\* struct.pack("!H", n): 16 bits, big-endian.
pack_H(n) == <<n \div 256, n % 256>>

\* struct.unpack("!H", data)[0]
unpack_H(data) == data[1] * 256 + data[2]

\* struct.pack("!Q", n): 64 bits, big-endian, for n below 2^31.
pack_Q(n) ==
    [i \in 1..8 |-> IF i <= 4 THEN 0 ELSE (n \div (256 ^ (8 - i))) % 256]

\* A length no stream of the model holds: stands for every 64-bit value
\* from 2^31 on.
TooLong == 2147483647

\* struct.unpack("!Q", data)[0]
unpack_Q(data) ==
    IF (\E i \in 1..4 : data[i] # 0) \/ data[5] >= 128 THEN TooLong
    ELSE ((data[5] * 256 + data[6]) * 256 + data[7]) * 256 + data[8]

\* 0x80 | opcode
fin_byte(opcode) ==
    IF (opcode \div 128) % 2 = 1 THEN opcode ELSE opcode + 128

\* Mutant of frame_header: the 16-bit form is used up to length 65536.
frame_header_late_escape(opcode, length) ==
    IF length < 126 THEN <<fin_byte(opcode), length>>
    ELSE IF length <= 65536 THEN <<fin_byte(opcode), 126>> \o pack_H(length % 65536)
    ELSE <<fin_byte(opcode), 127>> \o pack_Q(length)

\* ws_write_frame, the bytes before the payload: FIN and opcode, then the
\* length or its escape and the big-endian length.
frame_header(opcode, length) ==
    IF length < 126 THEN <<fin_byte(opcode), length>>
    ELSE IF length < 65536 THEN <<fin_byte(opcode), 126>> \o pack_H(length)
    ELSE <<fin_byte(opcode), 127>> \o pack_Q(length)

\* ws_write_frame: what writer.write is given.  A stream is the bytes of
\* the frame header written out (head), followed by the payload (body).
ws_write_frame(opcode, payload) ==
    [head |-> frame_header(opcode, payload.len), body |-> payload]

\* ws_read_frame raised: a readexactly met the end of the stream
\* (IncompleteReadError).
ReadError == [ok |-> FALSE, opcode |-> 0, payload |-> EmptyBytes]

\* Mutant of ws_read_frame_at: the mask is read and not applied.
ws_read_frame_at_no_unmask(s, ext, length, masked) ==
    IF Len(s.head) < 2 + ext + 4 * masked \/ s.body.len < length
    THEN ReadError
    ELSE [ok |-> TRUE, opcode |-> s.head[1] % 16,
          payload |-> Bytes(length, s.body.pat)]

\* ws_read_frame from the mask on: the 4 mask bytes when masked, then
\* `length` payload bytes, unmasked with the mask.  ext is the number of
\* extended-length bytes already read.
ws_read_frame_at(s, ext, length, masked) ==
    IF Len(s.head) < 2 + ext + 4 * masked \/ s.body.len < length
    THEN ReadError
    ELSE LET raw == Bytes(length, s.body.pat)
             mask == SubSeq(s.head, 2 + ext + 1, 2 + ext + 4)
         IN  [ok |-> TRUE, opcode |-> s.head[1] % 16,
              payload |-> IF masked = 1 THEN xor_mask(raw, mask) ELSE raw]

\* ws_read_frame: the two header bytes, the extended length, then the rest.
\* A readexactly that meets the end of the stream raises.
ws_read_frame(s) ==
    IF Len(s.head) < 2 THEN ReadError
    ELSE LET masked == (s.head[2] \div 128) % 2
             len7 == s.head[2] % 128
             ext == IF len7 = 126 THEN 2 ELSE IF len7 = 127 THEN 8 ELSE 0
         IN  IF Len(s.head) < 2 + ext THEN ReadError
             ELSE ws_read_frame_at(
                      s, ext,
                      IF len7 = 126 THEN unpack_H(SubSeq(s.head, 3, 4))
                      ELSE IF len7 = 127 THEN unpack_Q(SubSeq(s.head, 3, 10))
                      ELSE len7,
                      masked)

\* A frame as a client writes it: mask bit set, the mask after the length,
\* the payload XORed with the mask.
masked_frame(opcode, payload, mask) ==
    LET h == frame_header(opcode, payload.len)
    IN  [head |-> <<h[1], h[2] + 128>> \o SubSeq(h, 3, Len(h)) \o mask,
         body |-> xor_mask(payload, mask)]

\* The stream cut after its first n header bytes, or the payload cut by a
\* byte when n is the whole header: the peer went away mid-frame.
truncated(s, n) ==
    IF n < Len(s.head)
    THEN [head |-> SubSeq(s.head, 1, n), body |-> EmptyBytes]
    ELSE [head |-> s.head, body |-> Bytes(s.body.len - 1, s.body.pat)]

(* ------------------------------ actions ------------------------------- *)

NoResp == [op |-> "none", status |-> 0, id |-> NoId, body |-> <<>>]

NoBcast == [msg |-> <<>>, size |-> 0, visited |-> {}]

\* No tick in progress.
NoMarks == [c \in Conns |-> NotInTick]

\* The frame codec at rest: nothing to encode, nothing on the stream.
NoFrame == [opcode |-> 0, payload |-> EmptyBytes, mask |-> <<0, 0, 0, 0>>]

NoStream == [head |-> <<>>, body |-> EmptyBytes]

\* ws_read_frame has not been called on the stream.
NotRead == [ok |-> FALSE, opcode |-> -1, payload |-> EmptyBytes]

\* The program after construction: an empty store, a server that has not
\* ticked, no connection.
InitProgram ==
    /\ dirs = {}
    /\ events = [p \in Projects |-> <<>>]
    /\ resolved = [p \in Projects |-> <<>>]
    /\ uuid = 0
    /\ now = 0
    /\ resp = NoResp
    /\ known = {}
    /\ pollpc = "sleep"
    /\ current = <<>>
    /\ idx = 1
    /\ rem = {}
    /\ phase = "adds"
    /\ sent = <<>>
    /\ outcome = "none"
    /\ ws_clients = {}
    /\ closed = {}
    /\ handlers = {}
    /\ bcast = NoBcast
    /\ yielded = FALSE
    /\ serving = TRUE
    /\ inbox = [c \in Conns |-> <<>>]
    /\ depth = [c \in Conns |-> 0]
    /\ tick_mark = NoMarks
    /\ sessions = [p \in Projects |-> [n \in SessionNames |-> NoSession]]
    /\ calls = <<>>

Init ==
    /\ InitProgram
    /\ fin = NoFrame
    /\ wire = NoStream
    /\ fout = NotRead

\* ContextStore.ensure_project: mkdir and metadata files, no event.
EnsureProject(p) ==
    /\ p \notin dirs
    /\ dirs' = dirs \cup {p}
    /\ resp' = NoResp
    /\ UNCHANGED <<events, resolved, uuid, now, serverVars,
                   frameVars, engineVars>>

\* store.append_entry(ContextEntry(...)) by the engine, a test or an agent.
AppendEntry(p, in) ==
    /\ uuid < MaxEntries
    /\ LET e == NewEntry(p, "agent", Kind("str", in[1]), <<"test">>, in[2],
                         uuid + 1, now)
       IN  /\ dirs' = append_entry_dirs(e)
           /\ events' = append_entry_events(e)
    /\ uuid' = uuid + 1
    /\ now' = now + 1
    /\ resp' = NoResp
    /\ UNCHANGED <<resolved, serverVars, frameVars, engineVars>>

\* ContextStore.resolve_entry(p, entry_id, action, text): NotFound and no
\* mutation when p's log lacks entry_id, else the idempotent insert and the
\* appended resolution record.
resolve_entry(p, entry_id, action, text) ==
    IF entry_exists(p, entry_id, AnyUuid)
    THEN /\ uuid < MaxEntries
         /\ resolved' = resolved_insert(p, entry_id)
         /\ LET r == resolution_record(p, action, text, uuid + 1)
            IN  /\ dirs' = append_entry_dirs(r)
                /\ events' = append_entry_events(r)
         /\ uuid' = uuid + 1
         /\ now' = now + 1
    ELSE UNCHANGED <<dirs, events, resolved, uuid, now>>

\* store.resolve_entry called directly (test_queue.py).
StoreResolve(p, entry_id, in) ==
    /\ resolve_entry(p, entry_id, in[1], in[2])
    /\ resp' = NoResp
    /\ UNCHANGED <<serverVars, frameVars, engineVars>>

\* Mutant of get_events_dirs: the project directory is created when it is
\* missing.
get_events_dirs_touch(p) == dirs \cup {p}

\* The project directories after store.get_events(p, ...): the events file
\* is tested with exists() and read, nothing is created.
get_events_dirs(p) == dirs

\* store.get_events(p, since_ts, limit) called by a reader (the engine's
\* project_report and _build_snapshot, a test): the entries returned, as
\* to_dict serialises them, and the arguments of the call.  The call has
\* no raise of its own: status 200 stands for a call that returned.
GetEvents(p, since_ts, limit) ==
    /\ \E u \in UuidSeeds :
           LET evs == get_events(p, since_ts, limit, u)
           IN  resp' = [op |-> "events", status |-> 200, id |-> NoId,
                        body |-> [i \in 1..Len(evs) |-> to_dict(evs[i])],
                        args |-> <<p, since_ts, limit>>]
    /\ dirs' = get_events_dirs(p)
    /\ UNCHANGED <<events, resolved, uuid, now, serverVars,
                   frameVars, engineVars>>

\* Mutant of store_init: the resolved ids do not outlive the instance.
store_init_forgetful ==
    [dirs |-> dirs, events |-> events,
     resolved |-> [p \in Projects |-> <<>>]]

\* ContextStore.__init__ on a root that holds a tree: the instance keeps
\* paths and nothing else; projects/ is created when missing, no file is
\* read or written.
store_init == [dirs |-> dirs, events |-> events, resolved |-> resolved]

\* ContextStore(root=...) constructed over the persisted state: every
\* later call goes through the new instance.
LoadStore ==
    /\ dirs' = store_init.dirs
    /\ events' = store_init.events
    /\ resolved' = store_init.resolved
    /\ resp' = [op |-> "load", status |-> 200, id |-> NoId, body |-> <<>>]
    /\ UNCHANGED <<uuid, now, serverVars, frameVars, engineVars>>

(* ------------------------ engine.py: orchestration -------------------- *)

\* The fields of the SessionContext dataclass.
SessionFields ==
    {"project_id", "session_name", "role", "agent_id", "state", "goal",
     "next_action", "last_signal", "updated_at"}

\* The defaults of the SessionContext fields that have one.
SessionDefaults ==
    [agent_id |-> "None", state |-> "idle", goal |-> "None",
     next_action |-> "None", last_signal |-> "None", updated_at |-> now]

\* asdict(session): every field of the dataclass, by name.
asdict(session) == [f \in SessionFields |-> session[f]]

\* SessionContext(**mapping, **keywords): a keyword that the mapping also
\* holds is a TypeError (multiple values for a keyword argument), as is a
\* field without a default that neither gives; else the dataclass.
SessionContext(mapping, keywords) ==
    LET given == DOMAIN mapping \cup DOMAIN keywords
    IN  IF \/ DOMAIN mapping \cap DOMAIN keywords # {}
           \/ ~ (SessionFields \ DOMAIN SessionDefaults \subseteq given)
        THEN [ok |-> FALSE, error |-> "TypeError", value |-> <<>>]
        ELSE [ok |-> TRUE, error |-> "",
              value |-> [f \in SessionFields |->
                            IF f \in DOMAIN keywords THEN keywords[f]
                            ELSE IF f \in DOMAIN mapping THEN mapping[f]
                            ELSE SessionDefaults[f]]]

\* ContextStore.get_session: the record under the name, None without one.
get_session(p, session_name) == sessions[p][session_name]

\* ContextStore.upsert_session: sessions.json with the record, stamped,
\* under its name.
upsert_session(ss, session) ==
    [ss EXCEPT ![session.project_id][session.session_name] =
                   [session EXCEPT !.updated_at = now]]

\* The line append_entry writes for an entry the engine constructs at
\* clock t with the uuid4 u.
engine_line(p, session_name, actor, kind, text, u, t) ==
    to_dict([NewEntry(p, actor, Kind("EventKind", kind), text, FALSE, u, t)
                EXCEPT !.session_name = session_name])

\* The outcome of an engine call: returned, or the exception it raised.
EngineResp(op, raised) ==
    [op |-> op, status |-> IF raised = "" THEN 200 ELSE 500, id |-> NoId,
     body |-> <<>>, raised |-> raised]

\* Orchestrator.ensure_project: the project files, then a status entry.
EngineEnsureProject(p) ==
    /\ uuid < MaxEntries
    /\ dirs' = dirs \cup {p}
    /\ events' = [events EXCEPT ![p] =
                     Append(@, engine_line(p, "orchestrator", "system",
                                           "status", <<"initialized">>,
                                           uuid + 1, now))]
    /\ uuid' = uuid + 1
    /\ now' = now + 1
    /\ resp' = EngineResp("ensure_project", "")
    /\ UNCHANGED <<resolved, serverVars, frameVars, engineVars>>

\* Orchestrator.create_session with a session name: the executor creates
\* the session; without the project RuntimeError; else the session is
\* tracked as running and a handoff entry is appended.
CreateSession(p, session_name) ==
    /\ Len(calls) < MaxCalls
    /\ calls' = Append(calls, <<"create_session", session_name>>)
    /\ UNCHANGED <<resolved, serverVars, frameVars>>
    /\ IF p \notin dirs
       THEN /\ resp' = EngineResp("create_session", "RuntimeError")
            /\ UNCHANGED <<dirs, events, uuid, now, sessions>>
       ELSE /\ uuid < MaxEntries
            /\ sessions' =
                   upsert_session(
                       sessions,
                       SessionContext(
                           <<>>,
                           [project_id |-> p, session_name |-> session_name,
                            role |-> "worker", state |-> "running",
                            goal |-> "goal",
                            next_action |-> "waiting"]).value)
            /\ dirs' = dirs \cup {p}
            /\ events' = [events EXCEPT ![p] =
                             Append(@, engine_line(p, session_name,
                                                   "orchestrator", "handoff",
                                                   <<"created">>,
                                                   uuid + 1, now))]
            /\ uuid' = uuid + 1
            /\ now' = now + 1
            /\ resp' = EngineResp("create_session", "")

\* Orchestrator.dispatch_command with an executor that succeeds:
\* _require_session raises RuntimeError for an untracked session; the
\* session is rebuilt as running from asdict and three keywords and
\* upserted; a status entry is appended; the executor is sent the input,
\* waited on and asked for the screen; a note entry is appended; the
\* session is rebuilt as idle and upserted.  An exception ends the call
\* where it is raised.
DispatchCommand(p, session_name, command) ==
    LET tracked == get_session(p, session_name)
        running == SessionContext(
                       asdict(tracked),
                       [state |-> "running",
                        last_signal |-> <<"executing", command>>,
                        next_action |-> "send_input"])
        after_running == upsert_session(sessions, running.value)
        idle == SessionContext(
                    asdict(after_running[p][session_name]),
                    [state |-> "idle", last_signal |-> "completed_dispatch",
                     next_action |-> "awaiting_task"])
    IN  /\ UNCHANGED <<resolved, serverVars, frameVars>>
        /\ IF tracked = NoSession
           THEN /\ resp' = EngineResp("dispatch_command", "RuntimeError")
                /\ UNCHANGED <<dirs, events, uuid, now, engineVars>>
           ELSE IF ~ running.ok
           THEN /\ resp' = EngineResp("dispatch_command", running.error)
                /\ UNCHANGED <<dirs, events, uuid, now, engineVars>>
           ELSE /\ uuid + 2 <= MaxEntries
                /\ Len(calls) + 3 <= MaxCalls
                /\ dirs' = dirs \cup {p}
                /\ events' =
                       [events EXCEPT ![p] =
                           Append(Append(@,
                               engine_line(p, session_name, "orchestrator",
                                           "status", <<"Dispatching", command>>,
                                           uuid + 1, now)),
                               engine_line(p, session_name, "orchestrator",
                                           "note", <<"Ran", command>>,
                                           uuid + 2, now + 1))]
                /\ uuid' = uuid + 2
                /\ now' = now + 2
                /\ calls' = calls \o << <<"send_input", session_name>>,
                                        <<"quiesce", session_name>>,
                                        <<"get_screen", session_name>> >>
                /\ sessions' = IF idle.ok
                               THEN upsert_session(after_running, idle.value)
                               ELSE after_running
                /\ resp' = EngineResp("dispatch_command", idle.error)

(* ----------------------- server.py: REST surface ---------------------- *)

\* The loop's other tasks (request handlers, connection handlers) run only
\* while the poll task is suspended, in its sleep or in the await of a
\* send, and once it has ended.  Callers of the store outside the server
\* are not bound by this.
LoopFree == pollpc \in {"sleep", "cancelled"} \/ yielded

\* dict.get(key, default) on the request payload.
payload_get(payload, key, default) ==
    IF key \in DOMAIN payload THEN payload[key] ELSE default

\* Mutant of projects_holding: the id is looked up in the queue.
projects_holding_in_queue(entry_id) ==
    SelectSeq(list_projects,
              LAMBDA p : \E e \in Range(get_queue(p, AnyUuid)) : e.id = entry_id)

\* Mutant of projects_holding: the id comparison is missing.
projects_holding_any(entry_id) ==
    SelectSeq(list_projects,
              LAMBDA p : get_events(p, NoTs, ResolveLimit, AnyUuid) # <<>>)

\* The lookup of QueueServer._resolve_entry: the projects, in list_projects
\* order, whose last ResolveLimit events hold entry_id.
projects_holding(entry_id) ==
    SelectSeq(list_projects,
              LAMBDA p :
                  LET evs == get_events(p, NoTs, ResolveLimit, AnyUuid)
                  IN  \E i \in 1..Len(evs) : evs[i].id = entry_id)

\* POST /queue/{id}/resolve with a JSON body: QueueServer._resolve_entry
\* and the response _handle_http sends for its result.
RestResolve(entry_id, payload) ==
    LET action == payload_get(payload, "action", "acknowledge")
        text == payload_get(payload, "text", "")
        found == projects_holding(entry_id)
    IN  /\ LoopFree
        /\ UNCHANGED <<serverVars, frameVars, engineVars>>
        /\ IF found # <<>>
           THEN /\ resolve_entry(Head(found), entry_id, action, text)
                /\ resp' = [op |-> "resolve", status |-> 200, id |-> entry_id,
                            body |-> <<[resolved |-> TRUE, id |-> entry_id,
                                        action |-> action]>>]
           ELSE /\ resp' = [op |-> "resolve", status |-> 404, id |-> entry_id,
                            body |-> <<[error |-> "entry not found"]>>]
                /\ UNCHANGED <<dirs, events, resolved, uuid, now>>

\* GET /queue: the cross-project queue.
RestGetQueue ==
    /\ LoopFree
    /\ \E u \in UuidSeeds :
           LET entries == get_queue("", u)
           IN  resp' = [op |-> "queue", status |-> 200, id |-> NoId,
                        body |-> [i \in 1..Len(entries) |-> to_dict(entries[i])]]
    /\ UNCHANGED <<dirs, events, resolved, uuid, now, serverVars,
                   frameVars, engineVars>>

\* int(headers.get("content-length", "0"))
content_length(header) == IF header = NoLength THEN 0 ELSE header

\* The while loop of _read_body: reader.read(content_length - len(body))
\* returns what has arrived, at most that many bytes, and b"" at the end
\* of the stream, which breaks the loop.
RECURSIVE read_loop(_, _, _)
read_loop(body, length, arrivals) ==
    IF Len(body) >= length \/ arrivals = <<>> THEN body
    ELSE LET chunk == Head(arrivals)
             n == length - Len(body)
         IN  IF Len(chunk) <= n
             THEN read_loop(body \o chunk, length, Tail(arrivals))
             ELSE read_loop(body \o SubSeq(chunk, 1, n), length,
                            <<SubSeq(chunk, n + 1, Len(chunk))>>
                                \o Tail(arrivals))

\* QueueServer._read_body: body_start as it is for a Content-Length of 0,
\* else body_start extended by reads up to Content-Length bytes.
read_body(header, body_start, arrivals) ==
    IF content_length(header) = 0 THEN body_start
    ELSE read_loop(body_start, content_length(header), arrivals)

\* _read_http_request on a new connection (a connection carries one
\* request): the header block has been read, and with it body_start, the
\* bytes behind the blank line; the rest of what the peer sends arrives
\* afterwards.
ReadRequest(header, body_start, arrivals) ==
    /\ LoopFree
    /\ resp = NoResp
    /\ resp' = [op |-> "request", status |-> NoResponse, id |-> NoId,
                body |-> body_start,
                args |-> <<header, body_start, arrivals>>]
    /\ UNCHANGED <<dirs, events, resolved, uuid, now, serverVars,
                   frameVars, engineVars>>

\* _handle_http reads the body of the request: _read_body.
ReadBody ==
    /\ LoopFree
    /\ resp.op = "request"
    /\ resp' = [resp EXCEPT
                    !.op = "body",
                    !.status = 200,
                    !.body = read_body(resp.args[1], resp.args[2],
                                       resp.args[3])]
    /\ UNCHANGED <<dirs, events, resolved, uuid, now, serverVars,
                   frameVars, engineVars>>

\* json.loads(body_data): JSONDecodeError for bytes that are not a JSON
\* text, else the value, of the Python type of the JSON text's type.
json_loads(body_data) ==
    IF body_data.json \in {"", "malformed"}
    THEN [ok |-> FALSE, type |-> "", value |-> <<>>]
    ELSE [ok |-> TRUE,
          type |-> CASE body_data.json = "object" -> "dict"
                     [] body_data.json = "array" -> "list"
                     [] body_data.json = "string" -> "str"
                     [] body_data.json = "number" -> "int"
                     [] OTHER -> "NoneType",
          value |-> body_data.value]

\* payload.get exists on a dict only; on any other value the attribute
\* lookup raises AttributeError.
has_get(type) == type = "dict"

\* POST /queue/{id}/resolve as _handle_http serves it from the body that
\* _read_body returned: an empty body stands for {}; a body json.loads
\* rejects is answered 400; _resolve_entry raises AttributeError on a
\* payload without get, which _handle_connection catches, prints and
\* answers by closing the writer; else the lookup and its 200 or 404.
HttpResolve(entry_id, body_data) ==
    LET doc == json_loads(body_data)
    IN  IF body_data # EmptyBody /\ ~ doc.ok
        THEN /\ LoopFree
             /\ resp' = [op |-> "resolve", status |-> 400, id |-> entry_id,
                         body |-> <<[error |-> "invalid json"]>>]
             /\ UNCHANGED <<dirs, events, resolved, uuid, now, serverVars,
                            frameVars, engineVars>>
        ELSE IF body_data # EmptyBody /\ ~ has_get(doc.type)
        THEN /\ LoopFree
             /\ resp' = [op |-> "resolve", status |-> NoResponse,
                         id |-> entry_id, body |-> <<>>]
             /\ UNCHANGED <<dirs, events, resolved, uuid, now, serverVars,
                            frameVars, engineVars>>
        ELSE RestResolve(entry_id,
                         IF body_data = EmptyBody THEN <<>> ELSE doc.value)

\* The request methods of SpecRoute.
Methods == {"GET", "POST", "OPTIONS"}

\* The request paths of SpecRoute, query string and trailing slashes
\* stripped (clean_path), by their segments: /root, /root/{second} and
\* /root/{second}/tail, where the second segment is an entry id under
\* /queue and a project id under /projects.
Paths ==
    { [root |-> r, project |-> "", id |-> NoId, tail |-> ""] :
          r \in {"queue", "projects", "health"} }
    \cup { [root |-> "queue", project |-> "", id |-> i, tail |-> t] :
              i \in 1..(MaxEntries + 1), t \in {"", "resolve", "other"} }
    \cup { [root |-> "projects", project |-> q, id |-> NoId, tail |-> t] :
              q \in Projects, t \in {"", "sessions"} }

\* The request bodies of SpecRoute.
RouteBodies ==
    { EmptyBody,
      [json |-> "object", value |-> [action |-> "approve", text |-> "LGTM"]] }

\* clean_path == "/queue", clean_path == "/projects"
path_is(path, root) ==
    path.root = root /\ path.project = "" /\ path.id = NoId

\* clean_path.startswith("/queue/"), clean_path.startswith("/projects/")
path_startswith(path, root) ==
    path.root = root /\ (path.project # "" \/ path.id # NoId)

\* clean_path.endswith("/sessions")
path_endswith(path, tail) == path.tail = tail

\* ContextStore.list_sessions: the records of sessions.json.
list_sessions(p) ==
    SelectSeq([i \in 1..1 |-> sessions[p]["w1"]] \o
              [i \in 1..1 |-> sessions[p]["w2"]],
              LAMBDA session : session # NoSession)

\* _send_response for a request that reads at most.
Respond(op, status, body) ==
    /\ LoopFree
    /\ resp' = [op |-> op, status |-> status, id |-> NoId, body |-> body]
    /\ UNCHANGED <<dirs, events, resolved, uuid, now, serverVars,
                   frameVars, engineVars>>

\* QueueServer._handle_http: the routing of a request by method and
\* clean_path, top to bottom.  GET /projects lists the directories that
\* hold a project.json, which the model does not track: any of them.
HttpRequest(method, path, body_data) ==
    IF method = "OPTIONS"
    THEN Respond("options", 204, <<>>)
    ELSE IF path_is(path, "queue") /\ method = "GET"
    THEN RestGetQueue
    ELSE IF path_startswith(path, "queue") /\ method = "POST"
    THEN HttpResolve(path.id, body_data)
    ELSE IF path_is(path, "projects") /\ method = "GET"
    THEN \E with_file \in SUBSET dirs :
             Respond("projects", 200,
                     SelectSeq(list_projects, LAMBDA q : q \in with_file))
    ELSE IF /\ path_startswith(path, "projects")
            /\ path_endswith(path, "sessions")
            /\ method = "GET"
    THEN Respond("sessions", 200, list_sessions(path.project))
    ELSE Respond("not_found", 404, <<[error |-> "not found"]>>)

(* -------------------- server.py: poll-diff broadcaster ---------------- *)

\* {e.id for e in current}
ids_of(q) == { q[i].id : i \in 1..Len(q) }

\* The messages _poll_queue builds.
queue_add(e) == [type |-> "queue_add", entry |-> to_dict(e)]

queue_remove(id) == [type |-> "queue_remove", id |-> id]

\* Mutant of add_positions: the loop does not move on from an entry.
add_positions_from_head(q, i) == { j \in 1..Len(q) : q[j].id \notin known }

\* The add loop: the positions from i on whose entry id is not known.
add_positions(q, i) == { j \in i..Len(q) : q[j].id \notin known }

\* Mutant of removed_ids: the difference is taken the wrong way round.
removed_ids_reversed(q) == ids_of(q) \ known

\* The remove loop iterates over self._known_queue_ids - current_ids.
removed_ids(q) == known \ ids_of(q)

\* Mutant of remembered_ids: the new ids are merged into the old set.
remembered_ids_merged(q) == known \cup ids_of(q)

\* self._known_queue_ids = current_ids
remembered_ids(q) == ids_of(q)

\* _broadcast(message) is entered: the iteration over ws_clients starts.
StartBroadcast(msg) ==
    /\ sent' = Append(sent, msg)
    /\ bcast' = [msg |-> msg, size |-> Cardinality(ws_clients),
                 visited |-> {}]
    /\ pollpc' = "bcast"

\* Mutant of after_except: the exception leaves the loop, the task ends.
after_except_stop == "stopped"

\* Where _poll_queue goes on from its except clause: the handler is inside
\* the while loop, so back to the sleep.
after_except == "sleep"

\* A tick starts after the sleep: the queue is derived.
PollWake ==
    /\ pollpc = "sleep"
    /\ \E u \in UuidSeeds : current' = get_queue("", u)
    /\ pollpc' = "run"
    /\ idx' = 1
    /\ phase' = "adds"
    /\ rem' = {}
    /\ sent' = <<>>
    /\ outcome' = "none"
    /\ yielded' = FALSE
    /\ tick_mark' = [c \in Conns |-> IF c \in ws_clients THEN Len(inbox[c])
                                      ELSE NotInTick]
    /\ UNCHANGED <<dirs, events, resolved, uuid, now, resp, known, bcast,
                   serving, connVars, frameVars, engineVars>>

\* A tick whose derivation raises (a storage read fails): the except clause
\* reports it and the loop goes back to sleep.
PollFault ==
    /\ pollpc = "sleep"
    /\ sent' = <<>>
    /\ outcome' = "aborted"
    /\ pollpc' = after_except
    /\ UNCHANGED <<dirs, events, resolved, uuid, now, resp, known,
                   current, idx, rem, phase, bcast, yielded, serving,
                   wsVars, frameVars, engineVars>>

\* The tick between two broadcasts: the next add, then the next remove,
\* then the assignment of the remembered set.
PollAdvance ==
    /\ pollpc = "run"
    /\ yielded' = FALSE
    /\ UNCHANGED <<dirs, events, resolved, uuid, now, resp, current, serving,
                   connVars, frameVars, engineVars>>
    /\ IF phase = "adds" /\ add_positions(current, idx) # {}
       THEN LET j == CHOOSE j \in add_positions(current, idx) :
                         \A k \in add_positions(current, idx) : j <= k
            IN  /\ StartBroadcast(queue_add(current[j]))
                /\ idx' = j + 1
                /\ UNCHANGED <<known, rem, phase, outcome, tick_mark>>
       ELSE IF phase = "adds"
       THEN /\ phase' = "removes"
            /\ rem' = removed_ids(current)
            /\ idx' = Len(current) + 1
            /\ UNCHANGED <<known, pollpc, sent, outcome, bcast, tick_mark>>
       ELSE IF rem # {}
       THEN \E old_id \in rem :
                /\ StartBroadcast(queue_remove(old_id))
                /\ rem' = rem \ {old_id}
                /\ UNCHANGED <<known, idx, phase, outcome, tick_mark>>
       ELSE /\ known' = remembered_ids(current)
            /\ pollpc' = "sleep"
            /\ outcome' = "completed"
            /\ tick_mark' = NoMarks
            /\ UNCHANGED <<idx, rem, phase, sent, bcast>>

\* next() of the iteration over ws_clients finds the set's size changed:
\* RuntimeError, caught by the except clause of _poll_queue.
BroadcastSizeChanged ==
    /\ pollpc = "bcast"
    /\ Cardinality(ws_clients) # bcast.size
    /\ pollpc' = after_except
    /\ outcome' = "aborted"
    /\ bcast' = NoBcast
    /\ yielded' = FALSE
    /\ tick_mark' = NoMarks
    /\ UNCHANGED <<dirs, events, resolved, uuid, now, resp, known, current,
                   idx, rem, phase, sent, serving, connVars,
                   frameVars, engineVars>>

\* WebSocketConnection.send hands ws_write_frame a text frame.
text_frame(msg) == [op |-> OP_TEXT, payload |-> msg]

\* client.send(message) for the next connection of the iteration: nothing
\* for a closed one; else the frame is written, and the drain returns or
\* raises, which marks the connection closed.
BroadcastSend(c) ==
    /\ pollpc = "bcast"
    /\ Cardinality(ws_clients) = bcast.size
    /\ c \in ws_clients \ bcast.visited
    /\ bcast' = [bcast EXCEPT !.visited = @ \cup {c}]
    /\ IF c \in closed
       THEN yielded' = FALSE /\ closed' = closed /\ inbox' = inbox
       ELSE /\ Len(inbox[c]) < MaxInbox
            /\ yielded' = TRUE
            /\ inbox' = [inbox EXCEPT ![c] = Append(@, text_frame(bcast.msg))]
            /\ \/ closed' = closed
               \/ closed' = closed \cup {c}
    /\ UNCHANGED <<dirs, events, resolved, uuid, now, resp, known, pollpc,
                   current, idx, rem, phase, sent, outcome, serving,
                   ws_clients, handlers, depth, tick_mark, frameVars,
                   engineVars>>

\* The iteration is exhausted; ws_clients -= dead (dead is always empty,
\* send swallows every exception).
BroadcastEnd ==
    /\ pollpc = "bcast"
    /\ Cardinality(ws_clients) = bcast.size
    /\ ws_clients \subseteq bcast.visited
    /\ pollpc' = "run"
    /\ bcast' = NoBcast
    /\ yielded' = FALSE
    /\ UNCHANGED <<dirs, events, resolved, uuid, now, resp, known, current,
                   idx, rem, phase, sent, outcome, serving, wsVars,
                   frameVars, engineVars>>

\* Mutant of on_cancel: a send catches the cancellation like any other
\* exception, and the broadcast goes on.
on_cancel_swallowed(pc) == IF pc = "bcast" THEN "bcast" ELSE "cancelled"

\* Where the poll task goes when CancelledError is thrown into the await
\* it is suspended in: the exception is a BaseException, which no
\* `except Exception` of send, _broadcast or _poll_queue catches, so the
\* task ends.
on_cancel(pc) == "cancelled"

\* start(): serve_forever ends (it returns, raises or is cancelled), the
\* listener is closed and the finally clause cancels the poll task, which
\* is suspended in its sleep or in a send.
Shutdown ==
    /\ serving
    /\ pollpc \in {"sleep", "bcast"}
    /\ LoopFree
    /\ serving' = FALSE
    /\ pollpc' = on_cancel(pollpc)
    /\ outcome' = IF pollpc = "bcast" /\ pollpc' = "cancelled"
                  THEN "cancelled" ELSE outcome
    /\ bcast' = IF pollpc' = "cancelled" THEN NoBcast ELSE bcast
    /\ yielded' = IF pollpc' = "cancelled" THEN FALSE ELSE yielded
    /\ tick_mark' = IF pollpc' = "cancelled" THEN NoMarks ELSE tick_mark
    /\ UNCHANGED <<dirs, events, resolved, uuid, now, resp, known, current,
                   idx, rem, phase, sent, connVars, frameVars, engineVars>>

(* ------------------- server.py: push-socket connections --------------- *)

\* Mutant of queue_snapshot: the snapshot is built from the queue the
\* poll task derived last.
queue_snapshot_of_poll(entries) ==
    [type |-> "queue_snapshot",
     entries |-> [i \in 1..Len(current) |-> to_dict(current[i])]]

\* The message _handle_ws_upgrade builds from the queue.
queue_snapshot(entries) ==
    [type |-> "queue_snapshot",
     entries |-> [i \in 1..Len(entries) |-> to_dict(entries[i])]]

\* _handle_ws_upgrade up to its read loop: the connection is registered
\* and sent the snapshot.  Connections are accepted while the server is
\* inside serve_forever.  When a broadcast is iterating over ws_clients,
\* the new element lands behind or ahead of the iterator's position.
WsConnect(c) ==
    /\ LoopFree
    /\ serving
    /\ c \notin ws_clients
    /\ ws_clients' = ws_clients \cup {c}
    /\ handlers' = handlers \cup {c}
    /\ closed' = closed \ {c}
    /\ \E u \in UuidSeeds :
           inbox' = [inbox EXCEPT
                        ![c] = <<text_frame(queue_snapshot(get_queue("", u)))>>]
    /\ depth' = [depth EXCEPT ![c] = 0]
    /\ IF pollpc = "bcast"
       THEN \E behind \in BOOLEAN :
                bcast' = [bcast EXCEPT
                             !.visited = IF behind THEN @ \cup {c}
                                         ELSE @ \ {c}]
       ELSE UNCHANGED bcast
    /\ UNCHANGED <<dirs, events, resolved, uuid, now, resp, known, pollpc,
                   current, idx, rem, phase, sent, outcome, yielded,
                   serving, tick_mark, frameVars, engineVars>>

\* The finally block of _handle_ws_upgrade: the connection is discarded
\* from the registry and closed; its writer goes with it.
Teardown(c) ==
    /\ ws_clients' = ws_clients \ {c}
    /\ handlers' = handlers \ {c}
    /\ closed' = closed \cup {c}
    /\ inbox' = [inbox EXCEPT ![c] = <<>>]
    /\ depth' = [depth EXCEPT ![c] = 0]
    /\ tick_mark' = [tick_mark EXCEPT ![c] = NotInTick]

\* The read loop of _handle_ws_upgrade ends (close frame, read fault or
\* closed flag seen): finally discards the connection and closes it.
WsClose(c) ==
    /\ LoopFree
    /\ c \in handlers
    /\ Teardown(c)
    /\ UNCHANGED <<dirs, events, resolved, uuid, now, resp, pollVars,
                   frameVars, engineVars>>

\* _handle_ws_upgrade when store.get_queue() raises (a storage read
\* fails, as in a poll tick): the connection has been added to ws_clients,
\* the call is outside the try block, so the exception leaves the handler
\* without the finally clause; _handle_connection reports it and closes
\* the writer.  The closed flag of the connection is not set.
WsDeriveFault(c) ==
    /\ LoopFree
    /\ serving
    /\ c \notin ws_clients
    /\ ws_clients' = ws_clients \cup {c}
    /\ closed' = closed \ {c}
    /\ inbox' = [inbox EXCEPT ![c] = <<>>]
    /\ depth' = [depth EXCEPT ![c] = 0]
    /\ IF pollpc = "bcast"
       THEN \E behind \in BOOLEAN :
                bcast' = [bcast EXCEPT
                             !.visited = IF behind THEN @ \cup {c}
                                         ELSE @ \ {c}]
       ELSE UNCHANGED bcast
    /\ UNCHANGED <<dirs, events, resolved, uuid, now, resp, known, pollpc,
                   current, idx, rem, phase, sent, outcome, yielded,
                   serving, handlers, tick_mark, frameVars, engineVars>>

\* _handle_ws_upgrade when the write of the snapshot raises: send catches
\* the exception and sets the closed flag, the read loop is not entered
\* and the finally clause discards the connection it had added.
WsSnapshotFault(c) ==
    /\ LoopFree
    /\ serving
    /\ c \notin ws_clients
    /\ ws_clients' = (ws_clients \cup {c}) \ {c}
    /\ handlers' = (handlers \cup {c}) \ {c}
    /\ closed' = closed \cup {c}
    /\ inbox' = [inbox EXCEPT ![c] = <<>>]
    /\ depth' = [depth EXCEPT ![c] = 0]
    /\ UNCHANGED <<dirs, events, resolved, uuid, now, resp, pollVars,
                   tick_mark, frameVars, engineVars>>

\* The frame ws_write_frame is handed for a ping's payload.
pong_frame(payload) == [op |-> OP_PONG, payload |-> payload]

\* Mutant of recv: a read error is not caught.
recv_uncaught(nested, s) ==
    LET r == ws_read_frame(s)
    IN  IF ~ r.ok
        THEN [closed |-> FALSE, ret |-> "raise", written |-> <<>>]
        ELSE IF r.opcode = OP_CLOSE
        THEN [closed |-> TRUE, ret |-> "None", written |-> <<>>]
        ELSE IF r.opcode = OP_PING /\ nested >= RecursionLimit
        THEN [closed |-> TRUE, ret |-> "None", written |-> <<>>]
        ELSE IF r.opcode = OP_PING
        THEN [closed |-> FALSE, ret |-> "recv",
              written |-> <<pong_frame(r.payload)>>]
        ELSE IF r.opcode = OP_TEXT
        THEN [closed |-> FALSE, ret |-> "text", written |-> <<>>]
        ELSE [closed |-> FALSE, ret |-> "None", written |-> <<>>]

\* WebSocketConnection.recv on the frame the stream s holds, called with
\* `nested` recv calls already pending: whether it sets the closed flag,
\* what it returns ("None", the decoded "text", or what the nested "recv"
\* will return) and the frames it writes.  An exception of ws_read_frame,
\* or the RecursionError of one more nested call, is caught.
recv(nested, s) ==
    LET r == ws_read_frame(s)
    IN  IF ~ r.ok
        THEN [closed |-> TRUE, ret |-> "None", written |-> <<>>]
        ELSE IF r.opcode = OP_CLOSE
        THEN [closed |-> TRUE, ret |-> "None", written |-> <<>>]
        ELSE IF r.opcode = OP_PING /\ nested >= RecursionLimit
        THEN [closed |-> TRUE, ret |-> "None", written |-> <<>>]
        ELSE IF r.opcode = OP_PING
        THEN [closed |-> FALSE, ret |-> "recv",
              written |-> <<pong_frame(r.payload)>>]
        ELSE IF r.opcode = OP_TEXT
        THEN [closed |-> FALSE, ret |-> "text", written |-> <<>>]
        ELSE [closed |-> FALSE, ret |-> "None", written |-> <<>>]

\* The frames that arrive on a connection: a close, pings, a text message,
\* a binary frame, and frames the stream ends in or whose 64-bit length
\* no stream can honour.
ClientStreams ==
    { masked_frame(OP_CLOSE, EmptyBytes, ClientMask),
      masked_frame(2, Bytes(2, <<72, 105, 0, 0>>), ClientMask),
      truncated(masked_frame(OP_PING, EmptyBytes, ClientMask), 1),
      truncated(masked_frame(OP_TEXT, Bytes(2, <<72, 105, 0, 0>>),
                             ClientMask), 6),
      [head |-> <<129, 255, 255, 255, 255, 255, 255, 255, 255, 255>>
                    \o ClientMask,
       body |-> Bytes(2, <<72, 105, 0, 0>>)] }
    \cup { masked_frame(OP_PING, b, ClientMask) : b \in ClientPayloads }
    \cup { masked_frame(OP_TEXT, b, ClientMask) : b \in ClientPayloads }

\* One turn of the read loop of _handle_ws_upgrade: conn.recv() reads the
\* frame that has arrived.  The loop ends, and finally runs, when recv
\* returns None (or raises) and when the closed flag is found set; a ping
\* is answered and the read goes on inside a nested recv; a text message
\* is returned through every pending recv and dropped by the loop.
WsRecv(c, s) ==
    LET out == recv(depth[c], s)
    IN  /\ LoopFree
        /\ c \in handlers
        /\ wire' = s
        /\ fout' = ws_read_frame(s)
        /\ UNCHANGED <<dirs, events, resolved, uuid, now, resp, pollVars,
                       fin, engineVars>>
        /\ IF out.ret \in {"None", "raise"} \/ out.closed
              \/ (out.ret = "text" /\ c \in closed)
           THEN Teardown(c)
           ELSE IF out.ret = "recv"
           THEN /\ Len(inbox[c]) < MaxInbox
                /\ inbox' = [inbox EXCEPT ![c] = @ \o out.written]
                /\ depth' = [depth EXCEPT ![c] = @ + 1]
                /\ UNCHANGED <<ws_clients, closed, handlers, tick_mark>>
           ELSE /\ depth' = [depth EXCEPT ![c] = 0]
                /\ UNCHANGED <<ws_clients, closed, handlers, inbox,
                                tick_mark>>

\* A ping arrives and the write of its pong raises: recv catches the
\* exception, sets the closed flag and returns None; the loop ends.
WsPongFault(c, s) ==
    /\ LoopFree
    /\ c \in handlers
    /\ recv(depth[c], s).ret = "recv"
    /\ wire' = s
    /\ fout' = ws_read_frame(s)
    /\ Teardown(c)
    /\ UNCHANGED <<dirs, events, resolved, uuid, now, resp, pollVars,
                   fin, engineVars>>

(* ---------------------- server.py: frames on a stream ----------------- *)

\* The server writes the frame: ws_write_frame(writer, opcode, payload).
WriteFrame ==
    /\ wire' = ws_write_frame(fin.opcode, fin.payload)
    /\ fout' = NotRead
    /\ UNCHANGED <<dirs, events, resolved, uuid, now, resp, serverVars,
                   fin, engineVars>>

\* A client writes the frame, masked, for the server to read.
ClientFrame ==
    /\ wire' = masked_frame(fin.opcode, fin.payload, fin.mask)
    /\ fout' = NotRead
    /\ UNCHANGED <<dirs, events, resolved, uuid, now, resp, serverVars,
                   fin, engineVars>>

\* The stream ends inside the frame: after n header bytes, or a byte short
\* of the payload.
Truncate(n) ==
    /\ wire \in { ws_write_frame(fin.opcode, fin.payload),
                  masked_frame(fin.opcode, fin.payload, fin.mask) }
    /\ n < Len(wire.head) \/ wire.body.len > 0
    /\ wire' = truncated(wire, n)
    /\ fout' = NotRead
    /\ UNCHANGED <<dirs, events, resolved, uuid, now, resp, serverVars,
                   fin, engineVars>>

\* ws_read_frame(reader) on what the stream holds.
ReadFrame ==
    /\ wire # NoStream
    /\ fout = NotRead
    /\ fout' = ws_read_frame(wire)
    /\ UNCHANGED <<dirs, events, resolved, uuid, now, resp, serverVars, fin,
                   wire, engineVars>>

(* --------------------------- specifications --------------------------- *)

\* The store used as a library: appends and direct resolutions.
StoreNext ==
    \/ \E p \in Projects : EnsureProject(p)
    \/ \E p \in Projects, in \in AppendInputs : AppendEntry(p, in)
    \/ \E p \in Projects, id \in 1..(MaxEntries + 1), in \in ResolveInputs :
           StoreResolve(p, id, in)

Next == StoreNext

Spec == Init /\ [][Next]_vars

\* The REST surface over a store that is being appended to.
RestNext ==
    \/ \E p \in Projects : EnsureProject(p)
    \/ \E p \in Projects, in \in RestAppendInputs : AppendEntry(p, in)
    \/ \E id \in 1..(MaxEntries + 1), payload \in Payloads :
           RestResolve(id, payload)
    \/ RestGetQueue

SpecRest == Init /\ [][RestNext]_vars

\* The log read back while it is being appended to.
ReadNext ==
    \/ \E p \in Projects : EnsureProject(p)
    \/ \E p \in Projects, in \in ReadAppendInputs : AppendEntry(p, in)
    \/ \E p \in Projects, since_ts \in SinceInputs, limit \in LimitInputs :
           GetEvents(p, since_ts, limit)

SpecRead == Init /\ [][ReadNext]_vars

\* Resolutions, directly and over REST, of the entries of two projects,
\* with the store loaded afresh in between.
ResolveNext ==
    \/ \E p \in Projects, in \in ReadAppendInputs : AppendEntry(p, in)
    \/ \E p \in Projects, id \in 1..MaxEntries, in \in ResolveInputs :
           StoreResolve(p, id, in)
    \/ \E id \in 1..MaxEntries, payload \in ServerPayloads :
           RestResolve(id, payload)
    \/ LoadStore

SpecResolve == Init /\ [][ResolveNext]_vars

\* The engine: projects, sessions and dispatched commands.
EngineNext ==
    \/ \E p \in Projects : EngineEnsureProject(p)
    \/ \E p \in Projects, n \in SessionNames : CreateSession(p, n)
    \/ \E p \in Projects, n \in SessionNames, command \in Commands :
           DispatchCommand(p, n, command)

SpecEngine == Init /\ [][EngineNext]_vars

\* Request bodies read off the connection.
BodyNext ==
    \/ \E header \in ContentLengths, body_start \in BodyStarts,
          arrivals \in BodyArrivals :
           ReadRequest(header, body_start, arrivals)
    \/ ReadBody

SpecBody == Init /\ [][BodyNext]_vars

\* POST /queue/{id}/resolve with any body, over a store that is being
\* appended to.
HttpNext ==
    \/ \E p \in Projects, in \in RestAppendInputs : AppendEntry(p, in)
    \/ \E id \in 1..(MaxEntries + 1), body_data \in HttpBodies :
           HttpResolve(id, body_data)

SpecHttp == Init /\ [][HttpNext]_vars

\* The running server: the poll task, the push-socket connections and the
\* resolve requests, over a store that is being appended to.
ServerNext ==
    \/ \E p \in Projects, in \in ServerAppendInputs : AppendEntry(p, in)
    \/ \E id \in 1..MaxEntries, payload \in ServerPayloads :
           RestResolve(id, payload)
    \/ PollWake
    \/ PollFault
    \/ PollAdvance
    \/ BroadcastSizeChanged
    \/ \E c \in ServerConns : BroadcastSend(c)
    \/ BroadcastEnd
    \/ \E c \in ServerConns : WsConnect(c)
    \/ \E c \in ServerConns : WsClose(c)

SpecServer == Init /\ [][ServerNext]_vars

\* The running server with one push-socket connection coming and going,
\* over one project that attention entries are appended to.
ConnNext ==
    \/ \E p \in PushProjects, in \in PushAppendInputs : AppendEntry(p, in)
    \/ \E id \in 1..MaxEntries, payload \in ServerPayloads :
           RestResolve(id, payload)
    \/ PollWake
    \/ PollFault
    \/ PollAdvance
    \/ BroadcastSizeChanged
    \/ \E c \in ServerConns : BroadcastSend(c)
    \/ BroadcastEnd
    \/ \E c \in ServerConns : WsConnect(c)
    \/ \E c \in ServerConns : WsClose(c)

SpecConn == Init /\ [][ConnNext]_vars

\* The server from its start to after its stop: the poll task and one
\* push-socket connection, over one project that attention entries are
\* appended to and resolved in.
StopNext ==
    \/ \E p \in PushProjects, in \in PushAppendInputs : AppendEntry(p, in)
    \/ \E id \in 1..MaxEntries, payload \in ServerPayloads :
           RestResolve(id, payload)
    \/ PollWake
    \/ PollAdvance
    \/ BroadcastSizeChanged
    \/ \E c \in ServerConns : BroadcastSend(c)
    \/ BroadcastEnd
    \/ \E c \in ServerConns : WsConnect(c)
    \/ \E c \in ServerConns : WsClose(c)
    \/ Shutdown

SpecStop == Init /\ [][StopNext]_vars

\* The running server with two push-socket connections coming and going.
PushNext ==
    \/ \E p \in PushProjects, in \in PushAppendInputs : AppendEntry(p, in)
    \/ \E id \in 1..MaxEntries, payload \in ServerPayloads :
           RestResolve(id, payload)
    \/ PollWake
    \/ PollAdvance
    \/ BroadcastSizeChanged
    \/ \E c \in Conns : BroadcastSend(c)
    \/ BroadcastEnd
    \/ \E c \in Conns : WsConnect(c)
    \/ \E c \in Conns : WsClose(c)

SpecPush == Init /\ [][PushNext]_vars

\* The REST surface by method and path, over a store that is being
\* appended to.
RouteNext ==
    \/ \E p \in Projects, in \in RestAppendInputs : AppendEntry(p, in)
    \/ \E method \in Methods, path \in Paths, body_data \in RouteBodies :
           HttpRequest(method, path, body_data)

SpecRoute == Init /\ [][RouteNext]_vars

\* Two push-socket connections being accepted, with the faults of the
\* snapshot, over one project that attention entries are appended to.
JoinNext ==
    \/ \E p \in PushProjects, in \in PushAppendInputs : AppendEntry(p, in)
    \/ \E c \in Conns : WsConnect(c)
    \/ \E c \in Conns : WsDeriveFault(c)
    \/ \E c \in Conns : WsSnapshotFault(c)
    \/ \E c \in Conns : WsClose(c)

SpecJoin == Init /\ [][JoinNext]_vars

\* The read side of two push-socket connections.
WsNext ==
    \/ \E c \in Conns : WsConnect(c)
    \/ \E c \in Conns, s \in ClientStreams : WsRecv(c, s)
    \/ \E c \in Conns, s \in ClientStreams : WsPongFault(c, s)

SpecWs == Init /\ [][WsNext]_vars

\* The frame codec on its own: one frame, drawn at the start, is written
\* by the server or by a client, possibly cut short, and read back.
InitFrame ==
    /\ InitProgram
    /\ \E op \in FrameOpcodes, n \in FrameLengths, pat \in FramePatterns,
          mask \in FrameMasks :
           fin = [opcode |-> op, payload |-> Bytes(n, pat), mask |-> mask]
    /\ wire = NoStream
    /\ fout = NotRead

FrameNext ==
    \/ WriteFrame
    \/ ClientFrame
    \/ \E n \in 0..10 : Truncate(n)
    \/ ReadFrame

SpecFrame == InitFrame /\ [][FrameNext]_vars

(* ----------------------------- properties ----------------------------- *)

IsPrefix(s, t) == Len(s) <= Len(t) /\ SubSeq(t, 1, Len(s)) = s

NoDuplicates(s) == \A i, j \in 1..Len(s) : s[i] = s[j] => i = j

\* The lines of p's log that the data model puts in the queue: kind error
\* or approval_needed, or the flag set, and the id not resolved.
QueueLines(p) ==
    SelectSeq(events[p],
              LAMBDA l : /\ \/ l.kind \in {"error", "approval_needed"}
                            \/ l.human_attention_needed
                         /\ l.id \notin Range(resolved[p]))

LineIds(p) == { events[p][i].id : i \in 1..Len(events[p]) }

QueueIds(p) == { e.id : e \in Range(get_queue(p, AnyUuid)) }

\* Position of the line with this id in p's log (0 when absent).
LinePos(p, id) ==
    IF id \in LineIds(p)
    THEN CHOOSE i \in 1..Len(events[p]) : events[p][i].id = id
    ELSE 0

HumanLines(p) == SelectSeq(events[p], LAMBDA l : l.actor = "human")

\* C1: in every reachable state the queue of every project holds exactly
\* the entries of its log whose kind is error or approval_needed or whose
\* attention flag is set, and whose id is not resolved, in log order; an
\* entry of kind status, note or handoff with the flag unset is never in it.
C1_QueueMembership ==
    \A p \in Projects :
        LET q == get_queue(p, AnyUuid)
        IN  /\ [i \in 1..Len(q) |-> to_dict(q[i])] = QueueLines(p)
            /\ \A i \in 1..Len(q) :
                   ~ ( /\ kind_value(q[i]) \in {"status", "note", "handoff"}
                       /\ ~ q[i].human_attention_needed )

\* C1 witness: a project whose log holds a queued item, a resolved item
\* and an entry that is not attention-worthy.
C1_Witness ==
    \E p \in Projects :
        /\ get_queue(p, AnyUuid) # <<>>
        /\ \E i \in 1..Len(events[p]) :
               /\ events[p][i].kind \in {"error", "approval_needed"}
               /\ events[p][i].id \in Range(resolved[p])
        /\ \E i \in 1..Len(events[p]) :
               /\ events[p][i].kind \in {"status", "note", "handoff"}
               /\ ~ events[p][i].human_attention_needed

\* Is this line of a log attention-worthy by the data model?
LineNeedsAttention(l) ==
    l.kind \in {"error", "approval_needed"} \/ l.human_attention_needed

C2_Step ==
    \A p \in Projects :
        /\ \A id \in QueueIds(p) :
               id \in QueueIds(p)' \/ id \in Range(resolved'[p])
        /\ \A id \in Range(resolved[p]) :
               id \in Range(resolved'[p]) /\ id \notin QueueIds(p)'
        /\ \A i \in 1..Len(events'[p]) :
               ( /\ i > Len(events[p])
                 /\ LineNeedsAttention(events'[p][i]) )
               => events'[p][i].id \in QueueIds(p)'

\* C2: an attention-worthy entry is in the queue from the step that
\* appends it, leaves the queue only by being resolved, and once its id is
\* resolved it stays resolved and is in no later queue, whatever appends
\* and resolutions follow.
C2_QueueUntilResolved == [][C2_Step]_vars

\* C2 witness: an attention-worthy entry was resolved and the log of its
\* project has grown again after the resolution record.
C2_Witness ==
    \E p \in Projects :
        \E i, j, k \in 1..Len(events[p]) :
            /\ i < j /\ j < k
            /\ LineNeedsAttention(events[p][i])
            /\ events[p][i].id \in Range(resolved[p])
            /\ events[p][j].actor = "human"

C3_Step ==
    \A p \in Projects :
        \A id \in Range(resolved[p]) :
            (resp'.op = "resolve" /\ resp'.id = id)
            => /\ resp'.status = 200
               /\ Range(resolved'[p]) = Range(resolved[p])
               /\ NoDuplicates(resolved'[p])
               /\ id \notin QueueIds(p)'

\* C3: a resolve request for an id that is already resolved is answered
\* without an error, leaves the resolved-id set with the same members and
\* no duplicate, and the item stays out of the queue.
C3_ResolveIdempotent == [][C3_Step]_vars

\* C3 witness: the same id was resolved twice over REST (two resolution
\* records, one resolved id) and the second request was answered 200.
C3_Witness ==
    /\ resp.op = "resolve" /\ resp.status = 200
    /\ \E p \in Projects :
           /\ resolved[p] = <<resp.id>>
           /\ Len(HumanLines(p)) = 2

InNoLog(id) == \A p \in Projects : id \notin LineIds(p)

\* C4: a resolve request for an id that no log holds is answered 404 with
\* the body {"error":"entry not found"}, and the step changes no log, no
\* resolved-id set and no directory.
C4_NotFoundNoMutation ==
    [][ (resp'.op = "resolve" /\ InNoLog(resp'.id))
        => /\ resp'.status = 404
           /\ resp'.body = <<[error |-> "entry not found"]>>
           /\ UNCHANGED <<dirs, events, resolved>> ]_vars

\* C4 witness: a 404 was answered for an unknown id while logs and a
\* resolved-id set were not empty.
C4_Witness ==
    /\ resp.op = "resolve" /\ resp.status = 404 /\ InNoLog(resp.id)
    /\ \E p \in Projects : events[p] # <<>> /\ resolved[p] # <<>>

C5_Step ==
    \A p \in Projects, id \in 1..(MaxEntries + 1), in \in ResolveInputs :
        (StoreResolve(p, id, in) /\ id \in LineIds(p))
        => /\ Len(events'[p]) = Len(events[p]) + 1
           /\ \A q \in Projects \ {p} : events'[q] = events[q]
           /\ LET r == events'[p][Len(events'[p])]
              IN  /\ r.actor = "human"
                  /\ ~ LineNeedsAttention(r)
                  /\ in[1] \in Range(r.text)
                  /\ in[2] \in Range(r.text)
                  /\ r.id \notin QueueIds(p)'

\* C5: a successful resolve appends exactly one entry to the project's log,
\* with actor "human", a non-attention kind, the flag unset and a text that
\* holds the action and the rationale; no resolution record is ever in the
\* queue.
C5_ResolutionRecord ==
    /\ [][C5_Step]_vars
    /\ [](\A p \in Projects :
             \A l \in Range(HumanLines(p)) : l.id \notin QueueIds(p))

\* C5 witness: a resolution record was appended while another item of the
\* same project is still queued.
C5_Witness ==
    \E p \in Projects :
        /\ HumanLines(p) # <<>>
        /\ get_queue(p, AnyUuid) # <<>>
        /\ events[p][Len(events[p])].actor = "human"

\* C6: every step leaves every project's log a prefix of what it becomes:
\* no stored line is changed, removed or moved.
C6_AppendOnly ==
    [][\A p \in Projects : IsPrefix(events[p], events'[p])]_vars

\* C6 witness: a log that was appended to by callers and by a resolution.
C6_Witness ==
    \E p \in Projects :
        /\ Len(events[p]) >= 3
        /\ events[p][1].actor = "agent"
        /\ events[p][2].actor = "human"
        /\ events[p][3].actor = "agent"

\* C7: the ids of all lines of all logs are pairwise distinct and set, and
\* parsing a line back (whatever uuid4 would be drawn) keeps its id and
\* serialises to the same line.
C7_UniqueIds ==
    /\ \A p, q \in Projects :
           \A i \in 1..Len(events[p]), j \in 1..Len(events[q]) :
               events[p][i].id = events[q][j].id => (p = q /\ i = j)
    /\ \A p \in Projects :
           \A i \in 1..Len(events[p]) :
               /\ events[p][i].id # NoId
               /\ \A u \in UuidSeeds :
                      /\ parse(events[p][i], u).id = events[p][i].id
                      /\ to_dict(parse(events[p][i], u)) = events[p][i]

\* C7 witness: both projects hold entries, one of them a resolution record.
C7_Witness ==
    /\ \A p \in Projects : events[p] # <<>>
    /\ \E p \in Projects : HumanLines(p) # <<>>

C8_Pure ==
    \A p \in Projects \cup {""} :
        \A u1, u2 \in UuidSeeds : get_queue(p, u1) = get_queue(p, u2)

\* C8: the queue is a function of the logs and resolved ids alone: two
\* derivations in the same state agree entry by entry whatever uuid4
\* values the reads would draw, and a GET /queue step answers that queue
\* and changes no log, resolved-id set or directory.
C8_QueuePure ==
    /\ []C8_Pure
    /\ [][ resp'.op = "queue"
            => /\ UNCHANGED <<dirs, events, resolved>>
               /\ \A u \in UuidSeeds :
                      resp'.body = [i \in 1..Len(get_queue("", u)) |->
                                       to_dict(get_queue("", u)[i])] ]_vars

\* C8 witness: GET /queue answered a queue of two or more entries.
C8_Witness == resp.op = "queue" /\ Len(resp.body) >= 2

RECURSIVE SumQueueLines(_)
SumQueueLines(ps) ==
    IF ps = <<>> THEN 0
    ELSE Len(QueueLines(Head(ps))) + SumQueueLines(Tail(ps))

\* C9: the cross-project queue holds every queue item of every project
\* exactly once, each with its project_id, and the items of one project in
\* that project's append order.
C9_GlobalQueue ==
    LET g == get_queue("", AnyUuid)
    IN  /\ Len(g) = SumQueueLines(ProjectOrder)
        /\ \A i, j \in 1..Len(g) : g[i].id = g[j].id => i = j
        /\ \A i \in 1..Len(g) :
               /\ g[i].project_id \in Projects
               /\ to_dict(g[i]) \in Range(QueueLines(g[i].project_id))
        /\ \A p \in Projects :
               \A l \in Range(QueueLines(p)) :
                   \E i \in 1..Len(g) : to_dict(g[i]) = l
        /\ \A i, j \in 1..Len(g) :
               (i < j /\ g[i].project_id = g[j].project_id)
               => LinePos(g[i].project_id, g[i].id)
                    < LinePos(g[j].project_id, g[j].id)

\* C9 witness: a cross-project queue of three items from two projects.
C9_Witness ==
    LET g == get_queue("", AnyUuid)
    IN  /\ Len(g) >= 3
        /\ { g[i].project_id : i \in 1..Len(g) } = Projects

AddsSent == SelectSeq(sent, LAMBDA m : m.type = "queue_add")

RemovesSent == SelectSeq(sent, LAMBDA m : m.type = "queue_remove")

C10_Step ==
    (pollpc = "run" /\ pollpc' = "sleep")
    => LET K == known
           C == { current[i].id : i \in 1..Len(current) }
       IN  /\ { AddsSent[i].entry.id : i \in 1..Len(AddsSent) } = C \ K
           /\ Len(AddsSent) = Cardinality(C \ K)
           /\ \A i \in 1..Len(AddsSent) :
                  \E j \in 1..Len(current) :
                      AddsSent[i].entry = to_dict(current[j])
           /\ { RemovesSent[i].id : i \in 1..Len(RemovesSent) } = K \ C
           /\ Len(RemovesSent) = Cardinality(K \ C)
           /\ known' = C

\* C10: when a poll tick completes, with K the remembered ids it started
\* with and C the ids of the queue it derived, the tick has broadcast one
\* queue_add with the full entry for each id of C \ K and no other, one
\* queue_remove for each id of K \ C and no other, and the remembered set
\* becomes C.
C10_PollDiff == [][C10_Step]_vars

\* C10 witness: a tick completed that broadcast an add and a remove while a
\* connection was registered.
C10_Witness ==
    /\ pollpc = "sleep" /\ outcome = "completed"
    /\ AddsSent # <<>> /\ RemovesSent # <<>>
    /\ ws_clients # {}

\* The application messages written to c: the payloads of its text frames.
AppMsgs(c) ==
    LET texts == SelectSeq(inbox[c], LAMBDA f : f.op = OP_TEXT)
    IN  [i \in 1..Len(texts) |-> texts[i].payload]

\* The entries of the queue as GET /queue would answer it now.
QueueDicts ==
    LET q == get_queue("", AnyUuid)
    IN  [i \in 1..Len(q) |-> to_dict(q[i])]

C11_Step ==
    \A c \in Conns :
        (c \notin ws_clients /\ c \in ws_clients')
        => /\ AppMsgs(c)' # <<>>
           /\ AppMsgs(c)'[1] = [type |-> "queue_snapshot",
                                entries |-> QueueDicts]

ApplyMsg(ids, m) ==
    IF m.type = "queue_snapshot"
    THEN { m.entries[i].id : i \in 1..Len(m.entries) }
    ELSE IF m.type = "queue_add" THEN ids \cup {m.entry.id}
    ELSE ids \ {m.id}

RECURSIVE ApplyMsgs(_, _)
ApplyMsgs(ids, ms) ==
    IF ms = <<>> THEN ids
    ELSE ApplyMsgs(ApplyMsg(ids, Head(ms)), Tail(ms))

\* The id set a client of c holds after all it was sent.
ClientIds(c) == ApplyMsgs({}, AppMsgs(c))

\* The latest tick completed and the queue is still the one it derived.
\* Ids never return to the queue and new entries have new ids, so the
\* queue is the derived one exactly when no append or resolve since the
\* tick began has touched it.
SettledTick ==
    /\ pollpc = "sleep" /\ outcome = "completed"
    /\ get_queue("", AnyUuid) = current

\* C12: once a poll tick has completed and nothing was appended or
\* resolved since it began, every open registered connection's client
\* holds, from its snapshot and the adds and removes sent after it,
\* exactly the ids GET /queue answers.
C12_Converge ==
    SettledTick
    => \A c \in ws_clients \ closed :
           ClientIds(c) = ids_of(get_queue("", AnyUuid))

\* C12 witness: after a settled tick a client that was sent an add and a
\* remove after its snapshot holds the ids of a queue that is not empty.
C12_Witness ==
    /\ SettledTick
    /\ \E c \in ws_clients \ closed :
           /\ ClientIds(c) = ids_of(current)
           /\ current # <<>>
           /\ \E i, j \in 2..Len(AppMsgs(c)) :
                  /\ AppMsgs(c)[i].type = "queue_add"
                  /\ AppMsgs(c)[j].type = "queue_remove"

C13_Step ==
    /\ (outcome' = "aborted" /\ (outcome # "aborted" \/ pollpc # "sleep"))
       => /\ pollpc' = "sleep"
          /\ UNCHANGED <<storeVars, resp, known, connVars>>
    /\ (outcome = "aborted" /\ pollpc' # pollpc)
       => /\ pollpc' = "run"
          /\ current' = get_queue("", AnyUuid)
          /\ sent' = <<>>

\* C13: a tick that raises, in deriving the queue or in a broadcast, leaves
\* the poll loop at its sleep with the store, the remembered ids and the
\* connections as they were; from there the next tick is enabled and
\* starts by deriving the queue afresh, and the REST surface and the
\* connection handlers can still take their steps.
C13_TickFaultIsolated ==
    /\ [][C13_Step]_vars
    /\ [](outcome = "aborted"
          => /\ pollpc = "sleep"
             /\ ENABLED PollWake
             /\ ENABLED RestGetQueue
             /\ \A c \in ServerConns :
                    ENABLED WsConnect(c) \/ ENABLED WsClose(c))

\* C13 witness: a tick was aborted inside a broadcast, after a message had
\* gone out, and the loop is asleep again with a connection registered.
C13_Witness ==
    /\ outcome = "aborted" /\ pollpc = "sleep"
    /\ sent # <<>>
    /\ ws_clients # {}

C14_Step ==
    /\ \A c \in Conns :
           (c \in ws_clients /\ c \notin ws_clients') => c \in closed'
    /\ (pollpc = "bcast" /\ pollpc' # "bcast")
       => \A c \in bcast.visited \cap closed' : c \notin ws_clients'

\* C14: a step that takes a connection out of the registry leaves it
\* closed, and when a broadcast ends no connection that it visited and
\* that is marked closed (its send faulted) is still in the registry.
C14_Teardown == [][C14_Step]_vars

\* C14 witness: a broadcast in progress has visited a registered
\* connection and the send to it faulted.
C14_Witness ==
    /\ pollpc = "bcast"
    /\ \E c \in ws_clients : c \in bcast.visited /\ c \in closed

\* The connections registered since the tick in progress began that are
\* registered and open after the step.
StayedOpen == { c \in Conns : /\ tick_mark[c] # NotInTick
                              /\ c \in ws_clients' \ closed' }

C15_Step ==
    (pollpc = "bcast" /\ pollpc' # "bcast")
    => /\ outcome' # "aborted"
       /\ \A c \in StayedOpen :
              /\ Len(inbox'[c]) > tick_mark[c]
              /\ inbox'[c][Len(inbox'[c])] = text_frame(bcast.msg)

\* C15: every broadcast ends without raising, whatever connections were
\* registered or removed while it was suspended in a send, and when it
\* ends its message is the last frame written to every connection that
\* has been registered since before it started and is still open.
C15_RegistryTolerant == [][C15_Step]_vars

\* C15 witness: a broadcast is suspended in a send and the registry no
\* longer has the size it had when the iteration started.
C15_Witness ==
    /\ pollpc = "bcast" /\ yielded
    /\ Cardinality(ws_clients) # bcast.size

\* The text frames written to c since the tick in progress began.
TickMsgs(c) ==
    LET fs == inbox'[c]
    IN  [i \in 1..(Len(fs) - tick_mark[c]) |-> fs[tick_mark[c] + i].payload]

\* How many of the messages ms announce id with this type.
Count(ms, type, id) ==
    Cardinality({ i \in 1..Len(ms) :
                    /\ ms[i].type = type
                    /\ IF type = "queue_add" THEN ms[i].entry.id = id
                       ELSE ms[i].id = id })

C16_Step ==
    ( /\ pollpc # "sleep" /\ pollpc' = "sleep"
      /\ \A c \in ws_clients' : tick_mark[c] # NotInTick )
    => \A c \in StayedOpen :
           /\ \A id \in ids_of(current) \ known :
                  Count(TickMsgs(c), "queue_add", id) = 1
           /\ \A id \in known \ ids_of(current) :
                  Count(TickMsgs(c), "queue_remove", id) = 1

\* C16: when a tick ends during which no connection was registered, every
\* connection that has been registered since the tick began and is open
\* has been sent, in that tick, exactly one queue_add for each id the tick
\* found new and exactly one queue_remove for each id it found gone,
\* whatever happened to the other connections meanwhile (a send that
\* faulted, a teardown).
C16_FaultIsolated == [][C16_Step]_vars

\* C16 witness: a tick completed in which the send to one connection
\* faulted and the other, open, connection was sent every message of the
\* tick.
C16_Witness ==
    /\ pollpc = "sleep" /\ outcome = "completed" /\ sent # <<>>
    /\ \E c, d \in ws_clients :
           /\ c \in closed /\ d \notin closed
           /\ Len(AppMsgs(d)) > Len(sent)
           /\ SubSeq(AppMsgs(d), Len(AppMsgs(d)) - Len(sent) + 1,
                     Len(AppMsgs(d))) = sent

\* The big-endian value of the first i bytes of d.
RECURSIVE BigEndian(_, _)
BigEndian(d, i) ==
    IF i = 0 THEN 0 ELSE BigEndian(d, i - 1) * 256 + d[i]

\* C19: reading back a frame the server wrote, or the frame a client
\* wrote by masking the same payload with any mask, returns the opcode and
\* the payload bytes that were written, for every opcode and for payload
\* lengths on both sides of each length form (0, 125, 126, 65535, 65536).
C19_RoundTrip ==
    [][ ( /\ ReadFrame
          /\ wire \in { ws_write_frame(fin.opcode, fin.payload),
                        masked_frame(fin.opcode, fin.payload, fin.mask) } )
        => fout' = [ok |-> TRUE, opcode |-> fin.opcode,
                    payload |-> fin.payload] ]_vars

\* C19 witness: a masked frame of 65536 payload bytes, not all alike, was
\* read back.
C19_Witness ==
    /\ fout.ok
    /\ fin.payload.len = 65536
    /\ fin.payload.pat = <<72, 105, 33, 10>>
    /\ fin.mask = <<55, 250, 33, 61>>
    /\ wire = masked_frame(fin.opcode, fin.payload, fin.mask)

\* C20: a frame the server writes has the mask bit clear; its length byte
\* is the payload length below 126, 126 followed by the length in two
\* big-endian bytes from 126 to 65535, and 127 followed by the length in
\* eight big-endian bytes from 65536 on; the payload follows unchanged.
C20_ServerFrame ==
    [][ WriteFrame
        => LET h == wire'.head
               n == fin.payload.len
           IN  /\ h[2] < 128
               /\ n < 126 => (Len(h) = 2 /\ h[2] = n)
               /\ (126 <= n /\ n <= 65535)
                  => /\ Len(h) = 4 /\ h[2] = 126
                     /\ BigEndian(SubSeq(h, 3, 4), 2) = n
               /\ n >= 65536
                  => /\ Len(h) = 10 /\ h[2] = 127
                     /\ \A i \in 3..6 : h[i] = 0
                     /\ BigEndian(SubSeq(h, 7, 10), 4) = n
               /\ wire'.body = fin.payload ]_vars

\* C20 witness: the server wrote a frame of 65536 payload bytes, the
\* first length of the eight-byte form.
C20_Witness ==
    /\ wire = ws_write_frame(fin.opcode, fin.payload)
    /\ fin.payload.len = 65536
    /\ Len(wire.head) = 10

C17_Step ==
    \A c \in Conns, s \in ClientStreams :
        ( /\ WsRecv(c, s)
          /\ ws_read_frame(s).ok
          /\ ws_read_frame(s).opcode = OP_PING )
        => /\ inbox'[c] = Append(inbox[c],
                                 pong_frame(ws_read_frame(s).payload))
           /\ recv(depth[c], s).ret = "recv"
           /\ c \in ws_clients' /\ c \notin closed'

\* C17: a turn of the read loop that reads a ping writes one pong frame
\* with the ping's payload, returns nothing to the loop (the read goes on
\* in recv) and leaves the connection open and registered, however many
\* pings came before it.
C17_PingPong == [][C17_Step]_vars

\* C17 witness: two pings in a row were answered, each with its payload,
\* and the connection is open and registered.
C17_Witness ==
    \E c \in ws_clients \ closed :
        /\ depth[c] = 2
        /\ Len(inbox[c]) = 3
        /\ inbox[c][2] = pong_frame(Bytes(2, <<72, 105, 0, 0>>))
        /\ inbox[c][3] = pong_frame(EmptyBytes)

\* C18: a turn of the read loop that reads a close frame, or whose read
\* of the frame fails (the stream ends inside the frame, the length is
\* one no stream honours), has recv set the closed flag and return None
\* without raising; the loop ends, the connection is out of the registry
\* and closed, and the store, the poll task and every other connection
\* are as they were.
C18_CloseAndReadErrors ==
    [][ \A c \in Conns, s \in ClientStreams :
            ( /\ WsRecv(c, s)
              /\ ~ ws_read_frame(s).ok \/ ws_read_frame(s).opcode = OP_CLOSE )
            => /\ recv(depth[c], s) =
                      [closed |-> TRUE, ret |-> "None", written |-> <<>>]
               /\ c \notin ws_clients' /\ c \in closed'
               /\ UNCHANGED <<storeVars, pollVars>>
               /\ \A d \in Conns \ {c} :
                      /\ (d \in ws_clients') <=> (d \in ws_clients)
                      /\ (d \in closed') <=> (d \in closed)
                      /\ inbox'[d] = inbox[d] ]_vars

\* C18 witness: the read of a frame failed on one connection, which is
\* closed and out of the registry, while the other is registered, open
\* and inside a recv that has answered a ping.
C18_Witness ==
    /\ ~ fout.ok /\ wire \in ClientStreams
    /\ \E c, d \in Conns :
           /\ c \in closed \ ws_clients
           /\ d \in ws_clients \ closed
           /\ depth[d] = 1

\* Is the body a resolve payload: a JSON object, or no body at all (which
\* stands for the empty object).
IsResolvePayload(body_data) ==
    body_data = EmptyBody \/ body_data.json = "object"

C21_Step ==
    \A id \in 1..(MaxEntries + 1), body_data \in HttpBodies :
        HttpResolve(id, body_data)
        => /\ resp'.op = "resolve" /\ resp'.id = id
           /\ resp'.status # NoResponse
           /\ resp'.status =
                  IF ~ IsResolvePayload(body_data) THEN 400
                  ELSE IF InNoLog(id) THEN 404
                  ELSE 200
           /\ resp'.status = 200
              => resp'.body =
                     <<[resolved |-> TRUE, id |-> id,
                        action |-> payload_get(body_data.value, "action",
                                               "acknowledge")]>>

\* C21: every POST /queue/{id}/resolve is answered, and answered 400 when
\* its body is neither a JSON object nor absent, else 404 when no log
\* holds the id, else 200 with resolved true, the id and the action; no
\* body has the connection closed without a response.
C21_ResolveResponses == [][C21_Step]_vars

\* C21 witness: a body that is not a JSON text was answered 400 while a
\* log holds the requested id.
C21_Witness ==
    /\ resp.op = "resolve" /\ resp.status = 400
    /\ ~ InNoLog(resp.id)

\* The last n elements of s, all of s when it has fewer, none for n = 0.
LastAtMost(s, n) ==
    IF n >= Len(s) THEN s ELSE SubSeq(s, Len(s) - n + 1, Len(s))

\* The lines of p's log with a timestamp strictly after since_ts, all of
\* them when no since_ts is given.
LinesAfter(p, since_ts) ==
    SelectSeq(events[p], LAMBDA l : since_ts = NoTs \/ l.ts > since_ts)

C22_Step ==
    resp'.op = "events"
    => LET p == resp'.args[1]
           since_ts == resp'.args[2]
           limit == resp'.args[3]
       IN  /\ resp'.body = LastAtMost(LinesAfter(p, since_ts), limit)
           /\ Len(resp'.body) <= limit

\* C22: a read with a limit of N returns, in log order, the last N of the
\* project's entries whose timestamp is strictly after since when a since
\* is given, of all its entries otherwise; the result has at most N
\* entries for every N from 0 on.
C22_ReadLastN == [][C22_Step]_vars

\* C22 witness: a read with a since and a limit returned the last two
\* entries of a log of three, all after the since.
C22_Witness ==
    /\ resp.op = "events"
    /\ resp.args[2] # NoTs /\ resp.args[3] = 2
    /\ Len(events[resp.args[1]]) = 3
    /\ resp.body = SubSeq(events[resp.args[1]], 2, 3)

C23_Step ==
    /\ (resp'.op = "events" /\ events[resp'.args[1]] = <<>>)
       => /\ resp'.body = <<>> /\ resp'.status = 200
          /\ UNCHANGED storeVars
    /\ \A p \in Projects :
           (p \notin dirs /\ events'[p] # events[p])
           => /\ dirs' = dirs \cup {p}
              /\ Len(events'[p]) = 1
              /\ get_events(p, NoTs, 1, AnyUuid)' # <<>>

\* C23: a read of a project nothing was appended to, whether or not its
\* directory exists, returns the empty sequence without an error and
\* changes no directory, log or resolved-id set; the first append to a
\* project without a directory creates it, and the entry can be read back.
C23_ReadUnknown == [][C23_Step]_vars

\* C23 witness: a project without a directory was read, with entries in
\* the other project's log, and still has no directory.
C23_Witness ==
    /\ resp.op = "events" /\ resp.body = <<>>
    /\ resp.args[1] \notin dirs
    /\ \E q \in Projects : events[q] # <<>>

NewlyResolved(p) == Range(resolved'[p]) \ Range(resolved[p])

C25_Step ==
    \A p \in Projects :
        Len(HumanLines(p)') > Len(HumanLines(p))
        => /\ Cardinality(NewlyResolved(p)) <= 1
           /\ project_queue(p, AnyUuid)' =
                  SelectSeq(project_queue(p, AnyUuid),
                            LAMBDA e : e.id \notin NewlyResolved(p))
           /\ Len(project_queue(p, AnyUuid)') =
                  Len(project_queue(p, AnyUuid))
                    - Cardinality(NewlyResolved(p) \cap QueueIds(p))
           /\ \A q \in Projects \ {p} :
                  /\ events'[q] = events[q]
                  /\ resolved'[q] = resolved[q]
                  /\ project_queue(q, AnyUuid)' = project_queue(q, AnyUuid)

\* C25: a step that resolves an entry of project p (its resolution record
\* is appended to p's log) adds at most that one id to p's resolved ids
\* and leaves p's queue as it was without that id, every other item in
\* its place and one item fewer when the id was queued; the log, the
\* resolved ids and the queue of every other project are unchanged.
C25_ResolveOnlyThat == [][C25_Step]_vars

\* C25 witness: one of two queued items of a project was resolved over
\* REST, the other is still queued.
C25_Witness ==
    /\ resp.op = "resolve" /\ resp.status = 200
    /\ \E p \in Projects :
           /\ resp.id \in Range(resolved[p])
           /\ QueueIds(p) # {}
           /\ \E i \in 1..Len(events[p]) :
                  /\ events[p][i].id = resp.id
                  /\ LineNeedsAttention(events[p][i])

\* The position in the derived queue of the entry with this id.
PosInCurrent(id) == CHOOSE k \in 1..Len(current) : current[k].id = id

\* C26: among the messages a poll tick has passed to the broadcast so
\* far, no queue_add comes after a queue_remove, and the queue_add
\* messages carry entries of the derived queue at strictly increasing
\* positions: they are emitted in the order of the derived queue.
C26_AddsBeforeRemoves ==
    /\ \A i, j \in 1..Len(sent) :
           (sent[i].type = "queue_remove" /\ sent[j].type = "queue_add")
           => j < i
    /\ \A i \in 1..Len(AddsSent) :
           /\ AddsSent[i].entry.id \in ids_of(current)
           /\ AddsSent[i].entry = to_dict(current[PosInCurrent(AddsSent[i].entry.id)])
    /\ \A i, j \in 1..Len(AddsSent) :
           i < j => PosInCurrent(AddsSent[i].entry.id)
                      < PosInCurrent(AddsSent[j].entry.id)

\* C26 witness: a tick has broadcast an add and then a remove, to a
\* registered connection.
C26_Witness ==
    /\ Len(sent) = 2
    /\ sent[1].type = "queue_add" /\ sent[2].type = "queue_remove"
    /\ ws_clients # {}

\* Is this frame a queue_add or a queue_remove?
IsDiffFrame(f) ==
    f.op = OP_TEXT /\ f.payload.type \in {"queue_add", "queue_remove"}

\* The number of queue_add and queue_remove frames written to c.
DiffFrames(c) == Len(SelectSeq(inbox[c], IsDiffFrame))

C27_Step ==
    ~ serving
    => /\ ~ serving'
       /\ pollpc' = "cancelled"
       /\ UNCHANGED <<known, current, idx, rem, phase, sent, outcome, bcast>>
       /\ \A c \in Conns : DiffFrames(c)' <= DiffFrames(c)

\* C27: once serve_forever has ended the server stays stopped and the
\* poll task is at its end: no step after that derives the queue, moves
\* a tick on or passes a message to the broadcast, the remembered ids
\* stay as they are, and no connection is written a queue_add or a
\* queue_remove, whether the task was cancelled in its sleep or inside a
\* send of a broadcast.
C27_StopCancelsPoll == [][C27_Step]_vars

\* C27 witness: the server was stopped while a broadcast was suspended in
\* a send with an add still to come, and the store has been appended to
\* since.
C27_Witness ==
    /\ ~ serving /\ outcome = "cancelled"
    /\ ws_clients # {}
    /\ Len(sent) < Len(current)
    /\ Len(get_queue("", AnyUuid)) > Len(current)

RECURSIVE Flatten(_)
Flatten(chunks) ==
    IF chunks = <<>> THEN <<>> ELSE Head(chunks) \o Flatten(Tail(chunks))

\* The first n elements of s, all of s when it has fewer.
FirstAtMost(s, n) == IF n >= Len(s) THEN s ELSE SubSeq(s, 1, n)

C28_Step ==
    resp'.op = "body"
    => LET header == resp'.args[1]
           peer == resp'.args[2] \o Flatten(resp'.args[3])
           length == IF header = NoLength THEN 0 ELSE header
       IN  /\ Len(resp'.body) <= length
           /\ resp'.body = FirstAtMost(peer, length)

\* C28: the body the server uses is the first Content-Length bytes of
\* what the peer sends after the header block, all of it when the peer
\* sends fewer, and no byte when the header is 0 or absent: never more
\* than Content-Length bytes, however the bytes were split between the
\* read of the header block and the later reads.
C28_ExactBody == [][C28_Step]_vars

\* C28 witness: a body of three bytes was put together from one byte read
\* with the header block and two later chunks, the last of which holds a
\* byte beyond Content-Length.
C28_Witness ==
    /\ resp.op = "body"
    /\ resp.args[1] = 3
    /\ Len(resp.args[2]) = 1
    /\ Len(resp.args[3]) = 2
    /\ Len(resp.args[3][1]) = 1 /\ Len(resp.args[3][2]) = 2
    /\ resp.body = resp.args[2] \o resp.args[3][1]
                      \o SubSeq(resp.args[3][2], 1, 1)

C29_Step ==
    \A p \in Projects, n \in SessionNames, command \in Commands :
        DispatchCommand(p, n, command)
        => IF sessions[p][n] # NoSession
           THEN /\ resp'.raised = ""
                /\ Len(events'[p]) = Len(events[p]) + 2
                /\ events'[p][Len(events[p]) + 1].kind = "status"
                /\ events'[p][Len(events[p]) + 2].kind = "note"
                /\ << <<"send_input", n>> >> = SelectSeq(
                       SubSeq(calls', Len(calls) + 1, Len(calls')),
                       LAMBDA call : call[1] = "send_input")
                /\ sessions'[p][n].state = "idle"
           ELSE /\ resp'.raised # ""
                /\ UNCHANGED <<events, calls, sessions>>

\* C29: a dispatch_command on a session tracked under the project, with
\* an executor that succeeds, returns without an error, having appended a
\* status entry and then a note entry to the project's log, sent the
\* command to the executor once, and left the session in state idle; on
\* a session that is not tracked it raises and has appended nothing,
\* called nothing and tracked nothing.
C29_Dispatch == [][C29_Step]_vars

\* C29 witness: a command was dispatched to a tracked session.
C29_Witness ==
    /\ resp.op = "dispatch_command"
    /\ \E p \in Projects, n \in SessionNames :
           /\ sessions[p][n] # NoSession
           /\ calls = << <<"create_session", n>> >>

C30_Step ==
    \A p \in Projects :
        \A id \in QueueIds(p) :
            (resp'.op = "resolve" /\ resp'.id = id)
            => /\ resp'.status = 200
               /\ \A q \in Projects : id \notin QueueIds(q)'

\* C30: a resolve request for the id of an entry that is in the queue is
\* answered 200 and the entry is in no project's queue afterwards,
\* however many lines the project's log holds behind the entry.
C30_QueuedResolvable == [][C30_Step]_vars

\* C30 witness: an entry that had a later line behind it in its log was
\* resolved over REST with 200 and has left the queue.
C30_Witness ==
    /\ resp.op = "resolve" /\ resp.status = 200
    /\ \E p \in Projects :
           /\ Len(events[p]) = 3
           /\ events[p][1].id = resp.id
           /\ LineNeedsAttention(events[p][1])
           /\ events[p][3].actor = "human"
           /\ resp.id \notin QueueIds(p)

\* The id set a client of c holds after the first k messages it was sent.
ClientIdsAt(c, k) == ApplyMsgs({}, SubSeq(AppMsgs(c), 1, k))

\* C31: no connection is sent a queue_add for an id its client holds:
\* every queue_add written to a connection carries an id that neither the
\* snapshot nor an earlier queue_add brought without a queue_remove of
\* that id in between.
C31_NoRepeatedAdd ==
    \A c \in Conns :
        \A k \in 2..Len(AppMsgs(c)) :
            AppMsgs(c)[k].type = "queue_add"
            => AppMsgs(c)[k].entry.id \notin ClientIdsAt(c, k - 1)

\* C31 witness: a connection whose snapshot was not empty was sent a
\* queue_add for an id it did not hold.
C31_Witness ==
    \E c \in ws_clients :
        /\ Len(AppMsgs(c)) = 2
        /\ AppMsgs(c)[1].entries # <<>>
        /\ AppMsgs(c)[2].type = "queue_add"
        /\ AppMsgs(c)[2].entry.id \notin ClientIdsAt(c, 1)

\* C32: the connection registry holds only connections whose handler is
\* running: no connection is registered after its handler has ended.
C32_RegistryLive == ws_clients \subseteq handlers

\* C32 witness: a connection whose snapshot could not be written has been
\* torn down and is not registered, while another one is registered with
\* its handler in the read loop.
C32_Witness ==
    \E c, d \in Conns :
        /\ c \in closed /\ c \notin ws_clients /\ c \notin handlers
        /\ d \in ws_clients /\ d \in handlers /\ d \notin closed
        /\ inbox[d] # <<>>

\* Is the frame on stream s well formed, with an opcode that is neither
\* close nor ping?
OtherFrame(s) ==
    /\ ws_read_frame(s).ok
    /\ ws_read_frame(s).opcode \notin {OP_CLOSE, OP_PING}

C33_Step ==
    \A c \in Conns, s \in ClientStreams :
        (WsRecv(c, s) /\ c \notin closed /\ OtherFrame(s))
        => /\ c \in ws_clients'
           /\ c \in handlers'
           /\ c \notin closed'

\* C33: when the read loop of an open registered connection reads a
\* well-formed frame whose opcode is neither close nor ping (a text, a
\* binary, a continuation or a pong frame), the connection stays
\* registered and open and its handler stays in the read loop.
C33_OtherFramesKeepOpen == [][C33_Step]_vars

\* C33 witness: a text frame has been read and every connection is
\* registered and open, its handler in the read loop.
C33_Witness ==
    /\ fout.ok /\ fout.opcode = OP_TEXT
    /\ ws_clients = Conns /\ handlers = Conns /\ closed = {}

\* Is the request POST /queue/{id}/resolve?
IsResolveRequest(method, path) ==
    /\ method = "POST"
    /\ path.root = "queue" /\ path.id # NoId /\ path.tail = "resolve"

C34_Step ==
    (events' # events \/ resolved' # resolved)
    => \A method \in Methods, path \in Paths, body_data \in RouteBodies :
           ~ IsResolveRequest(method, path)
           => ~ HttpRequest(method, path, body_data)

\* C34: a request changes a log or a resolved-id set only when it is
\* POST /queue/{id}/resolve: no step that serves another request (a POST
\* to another path under /queue/, a GET, an OPTIONS) changes either.
C34_OnlyResolveWrites == [][C34_Step]_vars

\* C34 witness: an OPTIONS request was answered 204 over logs and a
\* resolved-id set that are not empty.
C34_Witness ==
    /\ resp.op = "options" /\ resp.status = 204
    /\ \E p \in Projects : events[p] # <<>> /\ resolved[p] # <<>>

====
